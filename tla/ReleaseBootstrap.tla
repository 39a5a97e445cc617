--------------------------- MODULE ReleaseBootstrap ---------------------------
(* From a selector (a tag, a channel, a commit, main) to a source tree that   *)
(* may be installed. The client asks GitHub one thing per request, so tags,   *)
(* main, releases and their assets may change between any two answers. Two    *)
(* clients exist: secure_bootstrap.py, which writes a plan that the installer *)
(* reads and checks again, and the installer run without a plan, which asks   *)
(* GitHub itself.                                                             *)
EXTENDS Naturals, Sequences, FiniteSets, SequencesExt

CONSTANTS Commits,      \* commits of the repository; also: their source trees
          Tags,         \* release tags
          Version,      \* project.version of a tree
          TagVersion,   \* the version a tag spells
          Pre,          \* whether the tag spells a prerelease
          Junk,         \* bytes that are no archive of any commit
          None,
          Local,        \* the tree the installer itself is run from
          MaxRedirects, \* MAX_REDIRECTS
          MaxMoves      \* bound: changes made on GitHub

ASSUME ReleaseAssumption ==
    /\ MaxRedirects \in Nat /\ MaxMoves \in Nat
    /\ IsFiniteSet(Tags) /\ Local \in Commits
    /\ {Junk, None} \cap (Commits \cup Tags) = {} /\ Junk # None
    /\ Pre \in [Tags -> BOOLEAN]

Contents  == Commits \cup {Junk}
Kinds     == {"version", "stable", "prerelease", "commit", "main"}
Manifests == [tag : Tags, commit : Commits, sum : Contents]
Selectors == [kind : {"version"}, tag : Tags, commit : {None}]
             \cup [kind : {"stable", "prerelease", "main"}, tag : {None}, commit : {None}]
             \cup [kind : {"commit"}, tag : {None}, commit : Commits]
NoSelector == [kind |-> "none", tag |-> None, commit |-> None]

VARIABLES uv,                   \* whether the user has uv
          temp,                 \* whether the downloaded uv installer is on disk
          tagAt, main,          \* the commits the tags and main name
          published,            \* the published releases, oldest first
          flag,                 \* the prerelease flag of a release
          manifest, archive,    \* the assets of a release
          moves,                \* bound: changes made so far
          pc, via, dry, ask,    \* the client, its way, --dry-run, its selector
          tag, channel, commit, \* what it has resolved
          man, file, tree,      \* manifest, archive file and extracted tree
          hops,                 \* redirects followed for the file being fetched
          root,                 \* whether this run's staging directory exists
          since                 \* history: what the names meant since it began

world  == <<tagAt, main, published, flag, manifest, archive, moves>>
client == <<via, dry, ask>>
found  == <<tag, channel, commit>>
files  == <<man, file, tree>>
setup  == <<uv, temp>>
vars   == <<setup, world, pc, client, found, files, hops, root, since>>

FromRelease == ask.kind \in {"version", "stable", "prerelease"}
Published   == ToSet(published)

(* Before the run asks GitHub for anything. *)
Prompting == {"prompt", "confirm", "fetch", "execute", "python"}

Init == /\ uv \in {"missing", "present"} /\ temp = FALSE
        /\ tagAt \in [Tags -> Commits] /\ main \in {tagAt[t] : t \in Tags}
        /\ published \in SetToSeqs(Tags)
        /\ \A t \in Tags : Version[tagAt[t]] = TagVersion[t]
        /\ flag = Pre
        /\ manifest = [t \in Tags |-> [tag |-> t, commit |-> tagAt[t], sum |-> tagAt[t]]]
        /\ archive = tagAt
        /\ moves = 0
        /\ pc = "idle" /\ via = "script" /\ dry = FALSE /\ ask = NoSelector
        /\ tag = None /\ channel = "none" /\ commit = None
        /\ man = None /\ file = None /\ tree = None /\ hops = 0 /\ root = FALSE
        /\ since = {}

--------------------------------------------------------------------------------
(* GitHub and whoever publishes.                                              *)
Meanings == {<<"main", main>>} \cup {<<t, tagAt[t]>> : t \in Tags}
            \cup {<<t, flag[t]>> : t \in Published}

Change == /\ moves < MaxMoves
          /\ moves' = moves + 1
          /\ since' = IF pc \in Prompting \cup {"idle"} THEN since ELSE since \cup Meanings'
          /\ UNCHANGED <<setup, pc, client, found, files, hops, root>>

MoveTag(t, c) == /\ tagAt[t] # c
                 /\ tagAt' = [tagAt EXCEPT ![t] = c]
                 /\ UNCHANGED <<main, published, flag, manifest, archive>>
                 /\ Change

PushMain(c) == /\ main # c
               /\ main' = c
               /\ UNCHANGED <<tagAt, published, flag, manifest, archive>>
               /\ Change

Withdraw(t) == /\ \E i \in DOMAIN published :
                     published[i] = t /\ published' = RemoveAt(published, i)
               /\ UNCHANGED <<tagAt, main, flag, manifest, archive>>
               /\ Change

(* The release workflow: $GITHUB_SHA is what the tag named when it was pushed,*)
(* --verify-tag asks only that the tag still exists.                          *)
Publish(t, c) == /\ t \notin Published
                 /\ Version[c] = TagVersion[t]
                 /\ published' = Append(published, t)
                 /\ flag' = [flag EXCEPT ![t] = Pre[t]]
                 /\ manifest' = [manifest EXCEPT ![t] = [tag |-> t, commit |-> c, sum |-> c]]
                 /\ archive' = [archive EXCEPT ![t] = c]
                 /\ UNCHANGED <<tagAt, main>>
                 /\ Change

EditFlag(t) == /\ t \in Published
               /\ flag' = [flag EXCEPT ![t] = ~flag[t]]
               /\ UNCHANGED <<tagAt, main, published, manifest, archive>>
               /\ Change

(* An asset is uploaded again, from another build of a tagged commit.         *)
ReplaceManifest(t, m) == /\ manifest[t] # m
                         /\ manifest' = [manifest EXCEPT ![t] = m]
                         /\ UNCHANGED <<tagAt, main, published, flag, archive>>
                         /\ Change

ReplaceArchive(t, x) == /\ archive[t] # x
                        /\ archive' = [archive EXCEPT ![t] = x]
                        /\ UNCHANGED <<tagAt, main, published, flag, manifest>>
                        /\ Change

Builds == {m \in Manifests : m.sum = m.commit /\ Version[m.commit] = TagVersion[m.tag]}

World == \/ \E t \in Tags, c \in Commits : MoveTag(t, c) \/ Publish(t, c) \/ ReplaceArchive(t, c)
         \/ \E t \in Tags, m \in Builds : ReplaceManifest(t, m)
         \/ \E c \in Commits : PushMain(c)
         \/ \E t \in Tags : Withdraw(t) \/ EditFlag(t)

--------------------------------------------------------------------------------
(* The client. Whatever fails ends it, and the staging directory goes.        *)
Goto(label) == pc' = label

End == /\ Goto("idle")
       /\ ask' = NoSelector /\ via' = "script" /\ dry' = FALSE
       /\ tag' = None /\ channel' = "none" /\ commit' = None
       /\ man' = None /\ file' = None /\ tree' = None /\ hops' = 0
       /\ root' = FALSE /\ since' = {} /\ temp' = FALSE
       /\ UNCHANGED <<uv, world>>

AskGitHub(s) == /\ since' = Meanings
                /\ Goto(IF s.kind \in {"commit", "main"} THEN "commit" ELSE "release")

Begin(s, v, d) == /\ pc = "idle" /\ uv = "present"
                  /\ ask' = s /\ via' = v /\ dry' = d
                  /\ root' = TRUE
                  /\ AskGitHub(s)
                  /\ UNCHANGED <<setup, world, found, files, hops>>

(* Without uv the shell asks, unless it may not: --json and --dry-run end     *)
(* with a status. The staging directory is already there, and stays behind    *)
(* when the run ends here: the trap that removes it is set later.             *)
Prompt(s) == /\ pc = "idle" /\ uv = "missing"
             /\ ask' = s
             /\ root' = TRUE
             /\ Goto("prompt")
             /\ UNCHANGED <<setup, world, via, dry, found, files, hops, since>>

Choose == /\ pc = "prompt"
          /\ Goto("confirm")
          /\ UNCHANGED <<setup, world, client, found, files, hops, root, since>>

(* Any other answer prints something and ends the run.                        *)
GiveUp == /\ pc \in {"prompt", "confirm"}
          /\ End

(* Exactly INSTALL.                                                           *)
Confirm == /\ pc = "confirm"
           /\ temp' = TRUE
           /\ Goto("fetch")
           /\ UNCHANGED <<uv, world, client, found, files, hops, root, since>>

FetchUv == /\ pc = "fetch" /\ temp
           /\ Goto("execute")
           /\ UNCHANGED <<setup, world, client, found, files, hops, root, since>>

ExecuteUv == /\ pc = "execute" /\ temp
             /\ uv' = "present" /\ temp' = FALSE
             /\ Goto("python")
             /\ UNCHANGED <<world, client, found, files, hops, root, since>>

(* UV_BIN is set by now: the run goes on even if this fails.                  *)
InstallPython == /\ pc = "python"
                 /\ AskGitHub(ask)
                 /\ UNCHANGED <<setup, world, client, found, files, hops, root>>

(* /releases/latest, /releases/tags/<tag> or the list: GitHub chooses the     *)
(* latest stable one, the client the prerelease published last.               *)
Offered ==
    CASE ask.kind = "version"    -> {ask.tag} \cap Published
      [] ask.kind = "stable"     -> {t \in Published : ~flag[t]}
      [] ask.kind = "prerelease" ->
           LET pres == {i \in DOMAIN published : flag[published[i]]}
           IN  {published[i] : i \in {j \in pres : \A k \in pres : k <= j}}
      [] OTHER                   -> {}

ReadRelease(t) == /\ pc = "release"
                  /\ t \in Offered
                  /\ tag' = t
                  /\ channel' = IF flag[t] THEN "prerelease" ELSE "stable"
                  /\ Goto("commit")
                  /\ UNCHANGED <<setup, world, client, commit, files, hops, root, since>>

Named == CASE ask.kind = "commit" -> ask.commit
           [] ask.kind = "main"   -> main
           [] OTHER               -> tagAt[tag]

(* With no plan and no release, the installer has the tree it was run from.   *)
ReadCommit == /\ pc = "commit"
              /\ commit' = Named
              /\ channel' = IF ask.kind = "main" THEN "main" ELSE channel
              /\ \/ FromRelease /\ Goto("manifest") /\ UNCHANGED tree
                 \/ ~FromRelease /\ via = "script" /\ Goto("download") /\ UNCHANGED tree
                 \/ ~FromRelease /\ via = "direct" /\ Goto("accept") /\ tree' = Local
              /\ UNCHANGED <<setup, world, client, tag, man, file, hops, root, since>>

(* Mutant: the manifest's commit is not compared with the resolved one.       *)
ValidTag(m) == /\ m.tag = tag
               /\ channel = IF Pre[m.tag] THEN "prerelease" ELSE "stable"

Valid(m) == /\ m.tag = tag
            /\ m.commit = commit
            /\ channel = IF Pre[m.tag] THEN "prerelease" ELSE "stable"

(* Two files are fetched over redirects, the manifest and the archive. A dry  *)
(* run plans the archive only, and the installer's own fetches neither.       *)
Fetching == \/ pc = "manifest" /\ (dry => via = "script")
            \/ pc = "download" /\ ~dry

(* validate_release_manifest: what it refuses ends the run in ManifestFails.  *)
(* The archive's redirects are counted anew.                                  *)
ReadManifest == /\ pc = "manifest" /\ Fetching
                /\ Valid(manifest[tag])
                /\ man' = manifest[tag]
                /\ hops' = 0
                /\ Goto("download")
                /\ UNCHANGED <<setup, world, client, found, file, tree, root, since>>

(* --dry-run: the plan, or the result without a plan, says what would be      *)
(* downloaded, and nothing is.                                                *)
DryRun == /\ dry
          /\ pc \in (IF via = "script" THEN {"download"} ELSE {"manifest", "accept"})
          /\ End

(* Mutant: one redirect more than MAX_REDIRECTS.                              *)
RedirectedPast == /\ Fetching
                  /\ hops <= MaxRedirects
                  /\ hops' = hops + 1
                  /\ UNCHANGED <<setup, world, pc, client, found, files, root, since>>

(* Mutant: the count of redirects starts anew.                                *)
RedirectedAnew == /\ Fetching
                  /\ hops' = IF hops < MaxRedirects THEN hops + 1 ELSE 0
                  /\ UNCHANGED <<setup, world, pc, client, found, files, root, since>>

Redirected == /\ Fetching
              /\ hops < MaxRedirects
              /\ hops' = hops + 1
              /\ UNCHANGED <<setup, world, pc, client, found, files, root, since>>

(* A release archive must have the manifest's checksum, or it is unlinked and *)
(* the run ends; a commit archive is pinned by its codeload path.             *)
Checked(x) == /\ FromRelease => x = man.sum
              /\ file' = x

(* Mutant: a redirect may leave the path of the commit.                       *)
ServedUnpinned == Contents

Served == {Junk, IF FromRelease THEN archive[tag] ELSE commit}

Downloaded(x) == /\ pc = "download" /\ Fetching
                 /\ x \in Served
                 /\ Checked(x)
                 /\ Goto("extract")
                 /\ UNCHANGED <<setup, world, client, found, man, tree, hops, root, since>>

(* safe_extract_archive: there must be something to extract.                  *)
Opens(x) == x \in Commits

OneVersion(t) == FromRelease => Version[t] = TagVersion[tag]

Extract == /\ pc = "extract"
           /\ Opens(file)
           /\ OneVersion(file)
           /\ tree' = file
           /\ Goto(IF via = "script" THEN "planned" ELSE "accept")
           /\ UNCHANGED <<setup, world, client, found, man, file, hops, root, since>>

(* _load_bootstrap_plan asks again that what the plan names exists.           *)
PlanHolds == /\ root
             /\ tree # None
             /\ file # None
             /\ FromRelease => man # None /\ man.tag = tag

(* The shell reads the plan and starts the installer, whose selection and     *)
(* resolution are the plan's.                                                 *)
LoadPlan == /\ pc = "planned"
            /\ PlanHolds
            /\ Goto("preflight")
            /\ UNCHANGED <<setup, world, client, found, files, hops, root, since>>

(* preflight_release_install: the staged manifest and archive are validated   *)
(* once more, and the archive is extracted again.                             *)
Preflight == /\ pc = "preflight"
             /\ FromRelease => Valid(man) /\ file = man.sum
             /\ FromRelease => Opens(file)
             /\ tree' = IF FromRelease THEN file ELSE tree
             /\ OneVersion(tree')
             /\ Goto("accept")
             /\ UNCHANGED <<setup, world, client, found, man, file, hops, root, since>>

(* The installer takes over; what it does with the tree is UserLocalInstall.  *)
Accept == /\ pc = "accept" /\ ~dry
          /\ End

(* GitHub does not answer in time, refuses, or answers what cannot be read. A *)
(* redirect is refused from its API, and past the limit from a manifest.      *)
RequestFails == /\ pc \in {"release", "commit"} /\ via = "script"
                /\ End

ResolverFails == /\ pc \in {"release", "commit"} /\ via = "direct"
                 /\ End

ManifestFails == /\ pc = "manifest"
                 /\ End

(* Another download or check fails, or the run is interrupted.                *)
Fail == /\ pc \notin {"idle", "prompt", "confirm", "release", "commit", "manifest"}
        /\ End

(* The shell's traps remove what they are set for and do not exit.            *)
Signal == \/ /\ pc \in {"fetch", "execute"} /\ temp
             /\ temp' = FALSE
             /\ UNCHANGED <<uv, world, pc, client, found, files, hops, root, since>>
          \/ /\ pc = "planned" /\ via = "script" /\ root
             /\ root' = FALSE
             /\ man' = None /\ file' = None /\ tree' = None
             /\ UNCHANGED <<setup, world, pc, client, found, hops, since>>

Step == \/ FetchUv \/ ExecuteUv \/ InstallPython
        \/ \E t \in Tags : ReadRelease(t)
        \/ ReadCommit \/ ReadManifest
        \/ DryRun \/ Redirected \/ \E x \in Contents : Downloaded(x)
        \/ Extract \/ LoadPlan \/ Preflight \/ Accept
        \/ RequestFails \/ ResolverFails \/ ManifestFails \/ Fail

Next == \/ World
        \/ \E s \in Selectors, v \in {"script", "direct"}, d \in BOOLEAN : Begin(s, v, d)
        \/ \E s \in Selectors : Prompt(s)
        \/ Choose \/ Confirm \/ GiveUp
        \/ Step
        \/ Signal

(* Every request has a timeout and a size limit, so a client in a run goes on.*)
FairSpec == Init /\ [][Next]_vars /\ WF_vars(Step)

--------------------------------------------------------------------------------
PCs == Prompting \cup {"idle", "release", "commit", "manifest", "download", "extract", "planned",
        "preflight", "accept"}

(* Every variable stays in its set, and the uv installer never outlives its   *)
(* use on disk.                                                               *)
TypeOK == /\ uv \in {"missing", "present"} /\ temp \in BOOLEAN
          /\ temp => pc \in {"fetch", "execute"}
          /\ tagAt \in [Tags -> Commits] /\ main \in Commits
          /\ published \in Seq(Tags) /\ flag \in [Tags -> BOOLEAN]
          /\ manifest \in [Tags -> Manifests] /\ archive \in [Tags -> Contents]
          /\ moves \in 0 .. MaxMoves
          /\ pc \in PCs /\ via \in {"script", "direct"} /\ dry \in BOOLEAN
          /\ ask \in Selectors \cup {NoSelector}
          /\ tag \in Tags \cup {None} /\ commit \in Commits \cup {None}
          /\ channel \in {"none", "stable", "prerelease", "main"}
          /\ man \in Manifests \cup {None} /\ file \in Contents \cup {None}
          /\ tree \in Commits \cup {None}
          /\ hops \in 0 .. MaxRedirects /\ root \in BOOLEAN

(* What is accepted is what was asked for: the commit asked for, a commit     *)
(* that main named during the run, or a commit that the release's tag named   *)
(* during the run, of the tag asked for or of a release that was on the       *)
(* channel asked for, whatever moved between the requests.                    *)
AcceptedIsRequested ==
    pc = "accept" /\ tree # None =>
      /\ ask.kind = "commit" => commit = ask.commit
      /\ ask.kind = "main" => <<"main", commit>> \in since
      /\ FromRelease => <<tag, tree>> \in since
      /\ ask.kind = "version" => tag = ask.tag
      /\ ask.kind \in {"stable", "prerelease"} =>
            /\ <<tag, ask.kind = "prerelease">> \in since
            /\ Pre[tag] = (ask.kind = "prerelease")

(* The commit that will be recorded as the origin of the installation is the  *)
(* commit of the tree that is installed. The installer run without a plan is  *)
(* the exception for a commit and for main: it never downloads them.          *)
RecordedCommitIsTree ==
    pc = "accept" /\ (via = "script" \/ FromRelease) => tree = commit

(* A run that waits for no answer of the operator ends, however often its     *)
(* downloads are redirected and whatever a signal has removed.                *)
BootstrapEnds == pc \notin {"idle", "prompt", "confirm"} ~> pc = "idle"
================================================================================
