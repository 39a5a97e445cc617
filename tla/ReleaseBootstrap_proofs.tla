------------------------ MODULE ReleaseBootstrap_proofs ------------------------
(* What holds of a bootstrap for any commits, tags and versions, whatever     *)
(* changes on GitHub between its requests, however often.                     *)
EXTENDS ReleaseBootstrap, FiniteSetTheorems, SequenceTheorems, TLAPS

Asking  == pc \notin Prompting \cup {"idle"}
AfterManifest == {"download", "extract", "planned", "preflight", "accept"}
AfterCommit   == AfterManifest \cup {"manifest"}

(* A signal may empty the staging directory before the plan is read.          *)
Staged == pc = "planned" => root

(* An uploaded manifest names the commit that its archive was made of.        *)
Built == \A t \in Tags : manifest[t].sum = manifest[t].commit

(* The client has a selector, and the history knows what the names mean now.  *)
Asked == /\ pc # "idle" => ask \in Selectors
         /\ pc \in {"release", "manifest"} => FromRelease
         /\ Asking => Meanings \subseteq since

(* The release is one that was asked for.                                     *)
Chosen ==
    Asking /\ pc # "release" /\ FromRelease =>
      /\ tag \in Tags
      /\ ask.kind = "version" => tag = ask.tag
      /\ ask.kind \in {"stable", "prerelease"} =>
            channel = ask.kind /\ <<tag, ask.kind = "prerelease">> \in since

(* The commit is one that the name meant.                                     *)
Resolved ==
    pc \in AfterCommit =>
      /\ commit \in Commits
      /\ ask.kind = "commit" => commit = ask.commit
      /\ ask.kind = "main" => <<"main", commit>> \in since
      /\ FromRelease => <<tag, commit>> \in since

(* The manifest agrees with both, and the archive with the manifest.          *)
Validated ==
    pc \in AfterManifest /\ Staged =>
      /\ FromRelease => man \in Manifests /\ Valid(man) /\ man.sum = man.commit
      /\ pc \in {"extract", "planned", "preflight"} =>
            IF FromRelease THEN file = man.sum ELSE file \in {Junk, commit}
      /\ pc \in {"planned", "preflight"} => tree = commit
      /\ pc = "accept" /\ (via = "script" \/ FromRelease) => tree = commit

BInv == TypeOK /\ Built /\ Asked /\ Chosen /\ Resolved /\ Validated

--------------------------------------------------------------------------------
(* What a selector holds.                                                     *)
LEMMA SelectorFields ==
    ASSUME NEW s \in Selectors
    PROVE  /\ s.kind \in Kinds
           /\ s.kind = "version" => s.tag \in Tags
           /\ s.kind = "commit" => s.commit \in Commits
BY DEF Selectors, Kinds

(* Releases in any order are a sequence of tags, and stay one.                *)
LEMMA OrderedTags ==
    ASSUME NEW s \in SetToSeqs(Tags)
    PROVE  s \in Seq(Tags)
<1>1. Cardinality(Tags) \in Nat
    BY FS_CardinalityType, ReleaseAssumption DEF ReleaseAssumption
<1>2. s \in [1 .. Cardinality(Tags) -> Tags]
    BY DEF SetToSeqs
<1> QED BY <1>1, <1>2

LEMMA WithdrawnTags ==
    ASSUME NEW s \in Seq(Tags), NEW i \in DOMAIN s
    PROVE  RemoveAt(s, i) \in Seq(Tags)
<1>1. Len(s) \in Nat /\ i \in 1 .. Len(s) /\ \A j \in 1 .. Len(s) : s[j] \in Tags
    OBVIOUS
<1>2. SubSeq(s, 1, i - 1) \in Seq(Tags)
    BY <1>1, SubSeqProperties
<1>3. SubSeq(s, i + 1, Len(s)) \in Seq(Tags)
    BY <1>1, SubSeqProperties
<1> QED BY <1>2, <1>3, ConcatProperties DEF RemoveAt

LEMMA PublishedTags == ASSUME TypeOK PROVE Published \subseteq Tags
BY DEF TypeOK, Published, ToSet

LEMMA Begins == Init => BInv
<1> SUFFICES ASSUME Init PROVE BInv
    OBVIOUS
<1> USE ReleaseAssumption DEF Init, ReleaseAssumption
<1>1. published \in Seq(Tags)
    BY OrderedTags
<1>2. main \in Commits
    OBVIOUS
<1>3. manifest \in [Tags -> Manifests] /\ Built
    BY DEF Manifests, Contents, Built
<1>4. archive \in [Tags -> Contents]
    BY DEF Contents
<1>5. TypeOK
    <2>1. moves \in 0 .. MaxMoves /\ hops \in 0 .. MaxRedirects
        OBVIOUS
    <2>2. pc \in PCs /\ ask \in Selectors \cup {NoSelector}
        BY DEF PCs
    <2>3. /\ tag \in Tags \cup {None} /\ commit \in Commits \cup {None}
          /\ man \in Manifests \cup {None} /\ file \in Contents \cup {None}
          /\ tree \in Commits \cup {None}
        OBVIOUS
    <2>4. tagAt \in [Tags -> Commits] /\ flag \in [Tags -> BOOLEAN]
        OBVIOUS
    <2>5. /\ uv \in {"missing", "present"} /\ temp = FALSE /\ root = FALSE /\ dry = FALSE
          /\ via = "script" /\ channel = "none"
        OBVIOUS
    <2> HIDE DEF Init, ReleaseAssumption
    <2> QED BY <1>1, <1>2, <1>3, <1>4, <2>1, <2>2, <2>3, <2>4, <2>5 DEF TypeOK
<1> QED BY <1>3, <1>5 DEF BInv, Asked, Asking, Chosen, Resolved, Validated, Prompting,
                          AfterManifest, AfterCommit, NoSelector

(* A change on GitHub leaves the client alone, and the history records it.    *)
LEMMA WorldHolds == ASSUME BInv, World PROVE BInv'
<1> USE ReleaseAssumption DEF BInv, ReleaseAssumption
<1>1. Change
    BY DEF World, MoveTag, Publish, ReplaceArchive, ReplaceManifest, PushMain,
           Withdraw, EditFlag
<1>2. UNCHANGED <<setup, pc, client, found, files, hops, root>>
    BY <1>1 DEF Change
<1>3. /\ since \subseteq since'
      /\ Asking => Meanings' \subseteq since'
    BY <1>1 DEF Change, Asking
<1>4. TypeOK' /\ Built'
    <2>1. moves' \in 0 .. MaxMoves
        BY <1>1 DEF Change, TypeOK
    <2>2. published' \in Seq(Tags)
        <3>1. CASE \E t \in Tags : Withdraw(t)
            BY <3>1, WithdrawnTags DEF Withdraw, TypeOK
        <3>2. CASE \E t \in Tags, c \in Commits : Publish(t, c)
            BY <3>2, AppendProperties DEF Publish, TypeOK
        <3>3. CASE UNCHANGED published
            BY <3>3 DEF TypeOK
        <3> QED BY <3>1, <3>2, <3>3 DEF World, MoveTag, ReplaceArchive,
                ReplaceManifest, PushMain, EditFlag
    <2>3. tagAt' \in [Tags -> Commits] /\ main' \in Commits
        BY DEF World, MoveTag, Publish, ReplaceArchive, ReplaceManifest, PushMain,
               Withdraw, EditFlag, TypeOK
    <2>4. flag' \in [Tags -> BOOLEAN]
        BY DEF World, MoveTag, Publish, ReplaceArchive, ReplaceManifest, PushMain,
               Withdraw, EditFlag, TypeOK
    <2>5. archive' \in [Tags -> Contents]
        BY DEF World, MoveTag, Publish, ReplaceArchive, ReplaceManifest, PushMain,
               Withdraw, EditFlag, TypeOK, Contents
    <2>6. manifest' \in [Tags -> Manifests] /\ Built'
        <3>1. CASE \E t \in Tags, c \in Commits : Publish(t, c)
            BY <3>1 DEF Publish, TypeOK, Built, Manifests, Contents
        <3>2. CASE \E t \in Tags, m \in Builds : ReplaceManifest(t, m)
            BY <3>2 DEF ReplaceManifest, TypeOK, Built, Builds
        <3>3. CASE UNCHANGED manifest
            BY <3>3 DEF TypeOK, Built
        <3> QED BY <3>1, <3>2, <3>3 DEF World, MoveTag, ReplaceArchive, PushMain,
                Withdraw, EditFlag
    <2> HIDE DEF ReleaseAssumption
    <2> QED BY <1>2, <2>1, <2>2, <2>3, <2>4, <2>5, <2>6
            DEF TypeOK, setup, client, found, files
<1>5. Asked'
    BY <1>2, <1>3 DEF Asked, Asking, FromRelease, client
<1>6. Chosen' /\ Resolved'
    BY <1>2, <1>3 DEF Chosen, Resolved, Asking, FromRelease, client, found
<1>7. Validated'
    BY <1>2 DEF Validated, Staged, Valid, FromRelease, client, found, files
<1> QED BY <1>4, <1>5, <1>6, <1>7

(* A client that ended holds nothing.                                         *)
LEMMA EndHolds == ASSUME BInv, End PROVE BInv'
<1> USE DEF BInv
<1>1. /\ pc' = "idle" /\ temp' = FALSE /\ UNCHANGED <<uv, world>>
      /\ ask' = NoSelector /\ via' = "script" /\ dry' = FALSE
      /\ tag' = None /\ channel' = "none" /\ commit' = None
      /\ man' = None /\ file' = None /\ tree' = None /\ hops' = 0 /\ root' = FALSE
    BY DEF End, Goto
<1>2. TypeOK' /\ Built'
    <2>1. hops' \in 0 .. MaxRedirects
        BY <1>1, ReleaseAssumption DEF ReleaseAssumption
    <2>2. pc' \in PCs
        BY <1>1 DEF PCs
    <2>3. Built'
        BY <1>1 DEF Built, world
    <2>4. /\ tagAt' \in [Tags -> Commits] /\ main' \in Commits
          /\ published' \in Seq(Tags) /\ flag' \in [Tags -> BOOLEAN]
          /\ manifest' \in [Tags -> Manifests] /\ archive' \in [Tags -> Contents]
          /\ moves' \in 0 .. MaxMoves /\ uv' \in {"missing", "present"}
        BY <1>1 DEF TypeOK, world
    <2>5. /\ ask' \in Selectors \cup {NoSelector}
          /\ tag' \in Tags \cup {None} /\ commit' \in Commits \cup {None}
          /\ man' \in Manifests \cup {None} /\ file' \in Contents \cup {None}
          /\ tree' \in Commits \cup {None}
        BY <1>1
    <2>6. /\ ~temp' /\ temp' \in BOOLEAN /\ root' \in BOOLEAN /\ dry' \in BOOLEAN
          /\ via' = "script" /\ channel' = "none"
        BY <1>1
    <2> QED BY <2>1, <2>2, <2>3, <2>4, <2>5, <2>6 DEF TypeOK
<1> QED BY <1>1, <1>2 DEF Asked, Asking, Chosen, Resolved, Validated, Prompting,
                          AfterManifest, AfterCommit

(* Until the first request the client only has its selector; with it the      *)
(* history starts.                                                            *)
LEMMA StartHolds ==
    ASSUME BInv,
           \/ \E s \in Selectors, v \in {"script", "direct"}, d \in BOOLEAN : Begin(s, v, d)
           \/ \E s \in Selectors : Prompt(s)
           \/ Choose \/ Confirm \/ FetchUv \/ ExecuteUv \/ InstallPython
    PROVE  BInv'
<1> USE DEF BInv
<1>1. /\ UNCHANGED <<world, found, files, hops>>
      /\ ask' \in Selectors
      /\ uv' \in {"missing", "present"} /\ root' \in BOOLEAN
      /\ via' \in {"script", "direct"} /\ dry' \in BOOLEAN
      /\ pc' \in Prompting \cup {"release", "commit"}
    BY DEF Begin, Prompt, Choose, Confirm, FetchUv, ExecuteUv, InstallPython, AskGitHub,
           Goto, Prompting, TypeOK, Asked, setup, client
<1>2. temp' \in BOOLEAN /\ (temp' => pc' \in {"fetch", "execute"})
    <2>1. CASE Confirm
        BY <2>1 DEF Confirm, Goto
    <2>2. CASE ExecuteUv
        <3>1. ~temp' /\ temp' \in BOOLEAN
            BY <2>2 DEF ExecuteUv
        <3> QED BY <3>1
    <2>3. CASE FetchUv
        BY <2>3 DEF FetchUv, Goto, setup, TypeOK
    <2>4. CASE ~Confirm /\ ~ExecuteUv /\ ~FetchUv
        <3>1. temp' = temp /\ pc \notin {"fetch", "execute"}
            BY <2>4 DEF Begin, Prompt, Choose, InstallPython, setup
        <3> QED BY <3>1 DEF TypeOK
    <2> QED BY <2>1, <2>2, <2>3, <2>4
<1>3. pc' \in {"release", "commit"} =>
        /\ since' = Meanings
        /\ pc' = (IF ask'.kind \in {"commit", "main"} THEN "commit" ELSE "release")
    BY DEF Begin, Prompt, Choose, Confirm, FetchUv, ExecuteUv, InstallPython, AskGitHub,
           Goto, client
<1>4. Meanings' = Meanings
    BY <1>1 DEF Meanings, Published, world
<1>5. TypeOK' /\ Built'
    BY <1>1, <1>2 DEF TypeOK, Built, world, found, files, PCs, Prompting
<1>6. ask'.kind \in Kinds
    BY <1>1, SelectorFields
<1>7. Asked'
    BY <1>1, <1>3, <1>4, <1>6 DEF Asked, Asking, FromRelease, Kinds, Prompting
<1>8. Chosen' /\ Resolved' /\ Validated'
    BY <1>1, <1>3, <1>6 DEF Chosen, Resolved, Validated, Asking, FromRelease, Kinds,
                            Prompting, AfterManifest, AfterCommit
<1> QED BY <1>5, <1>7, <1>8

(* The answers: a release of those on offer, the commit its tag names now,    *)
(* the manifest.                                                              *)
LEMMA AnswersHold ==
    ASSUME BInv, (\E t \in Tags : ReadRelease(t)) \/ ReadCommit \/ ReadManifest
    PROVE  BInv'
<1> USE ReleaseAssumption DEF BInv, ReleaseAssumption
<1>1. /\ UNCHANGED <<setup, world, client, root, since>>
      /\ hops' \in {hops, 0}
      /\ pc \in {"release", "commit", "manifest"}
      /\ pc' \in {"commit", "manifest", "download", "accept"}
      /\ UNCHANGED file
    BY DEF ReadRelease, ReadCommit, ReadManifest, Goto, files
<1>0. TypeOK => hops' \in 0 .. MaxRedirects
    BY <1>1 DEF TypeOK
<1>2. ask \in Selectors /\ ask' = ask /\ Meanings \subseteq since /\ since' = since
    BY <1>1 DEF Asked, Asking, Prompting, client
<1>3. Built' /\ Meanings' = Meanings /\ FromRelease' = FromRelease
    BY <1>1 DEF Built, Meanings, Published, FromRelease, world, client
<1>4. ask.kind \in Kinds
    BY <1>2, SelectorFields
<1>5. CASE \E t \in Tags : ReadRelease(t)
    <2> PICK t \in Tags : ReadRelease(t)
        BY <1>5
    <2>1. /\ pc = "release" /\ pc' = "commit" /\ tag' = t /\ t \in Offered
          /\ channel' = (IF flag[t] THEN "prerelease" ELSE "stable")
          /\ UNCHANGED <<commit, files>>
        BY DEF ReadRelease, Goto
    <2>2. FromRelease
        BY <2>1 DEF Asked
    <2>3. TypeOK'
        BY <1>0, <1>1, <2>1 DEF TypeOK, setup, world, client, files, PCs
    <2>4. Asked'
        BY <1>1, <1>2, <1>3, <2>1 DEF Asked
    <2>5. Chosen'
        <3>1. CASE ask.kind = "version"
            BY <1>2, <2>1, <3>1 DEF Chosen, Offered
        <3>2. CASE ask.kind = "stable"
            <4>1. t \in Published /\ flag[t] = FALSE
                BY <2>1, <3>2 DEF Offered, TypeOK
            <4>2. <<t, FALSE>> \in since
                BY <1>2, <4>1 DEF Meanings
            <4> QED BY <1>2, <2>1, <3>2, <4>1, <4>2 DEF Chosen
        <3>3. CASE ask.kind = "prerelease"
            <4>1. t \in Published /\ flag[t] = TRUE
                BY <2>1, <3>3 DEF Offered, TypeOK, Published, ToSet
            <4>2. <<t, TRUE>> \in since
                BY <1>2, <4>1 DEF Meanings
            <4> QED BY <1>2, <2>1, <3>3, <4>1, <4>2 DEF Chosen
        <3> QED BY <2>2, <3>1, <3>2, <3>3 DEF FromRelease
    <2>6. Resolved' /\ Validated'
        BY <2>1 DEF Resolved, Validated, AfterCommit, AfterManifest
    <2> QED BY <1>3, <2>3, <2>4, <2>5, <2>6
<1>6. CASE ReadCommit
    <2>1. /\ pc = "commit" /\ commit' = Named
          /\ channel' = (IF ask.kind = "main" THEN "main" ELSE channel)
          /\ UNCHANGED <<tag, man, file>>
          /\ \/ FromRelease /\ pc' = "manifest" /\ tree' = tree
             \/ ~FromRelease /\ pc' = "download" /\ via = "script" /\ tree' = tree
             \/ ~FromRelease /\ pc' = "accept" /\ via = "direct" /\ tree' = Local
        BY <1>6 DEF ReadCommit, Goto
    <2>2. FromRelease => tag \in Tags
        BY <2>1 DEF Chosen, Asking, Prompting
    <2>3. Named \in Commits
        BY <1>2, <1>4, <2>2, SelectorFields DEF Named, FromRelease, Kinds, TypeOK
    <2>4. TypeOK'
        BY <1>0, <1>1, <2>1, <2>3 DEF TypeOK, setup, world, client, PCs
    <2>5. Asked'
        BY <1>1, <1>2, <1>3, <2>1 DEF Asked
    <2>6. Chosen'
        <3>1. Asking /\ Asking'
            BY <2>1 DEF Asking, Prompting
        <3>2. FromRelease => channel' = channel
            BY <2>1 DEF FromRelease
        <3> QED BY <1>2, <1>3, <2>1, <3>1, <3>2 DEF Chosen
    <2>7. Resolved'
        <3>1. ask.kind = "commit" => Named = ask.commit
            BY DEF Named
        <3>2. ask.kind = "main" => <<"main", Named>> \in since
            BY <1>2 DEF Named, Meanings
        <3>3. FromRelease => <<tag, Named>> \in since
            BY <1>2, <2>2 DEF Named, Meanings, FromRelease
        <3> QED BY <1>2, <1>3, <2>1, <2>3, <3>1, <3>2, <3>3 DEF Resolved
    <2>8. Validated'
        BY <1>1, <1>3, <2>1 DEF Validated, AfterManifest, client
    <2> QED BY <1>3, <2>4, <2>5, <2>6, <2>7, <2>8
<1>7. CASE ReadManifest
    <2>1. /\ pc = "manifest" /\ pc' = "download" /\ man' = manifest[tag]
          /\ Valid(manifest[tag]) /\ UNCHANGED <<found, file, tree>>
        BY <1>7 DEF ReadManifest, Goto
    <2>2. FromRelease /\ tag \in Tags
        BY <2>1 DEF Asked, Chosen, Asking, Prompting
    <2>3. manifest[tag] \in Manifests /\ manifest[tag].sum = manifest[tag].commit
        BY <2>2 DEF TypeOK, Built
    <2>4. TypeOK'
        BY <1>0, <1>1, <2>1, <2>3 DEF TypeOK, setup, world, client, found, PCs
    <2>5. Asked'
        BY <1>1, <1>2, <1>3, <2>1 DEF Asked
    <2>6. Chosen' /\ Resolved'
        <3>1. Asking /\ Asking'
            BY <2>1 DEF Asking, Prompting
        <3> QED BY <1>2, <1>3, <2>1, <3>1 DEF Chosen, Resolved, AfterCommit,
                                              AfterManifest, found
    <2>7. Validated'
        BY <1>3, <2>1, <2>3 DEF Validated, Valid, found
    <2> QED BY <1>3, <2>4, <2>5, <2>6, <2>7
<1> QED BY <1>5, <1>6, <1>7

(* What is fetched, opened and checked again afterwards is the commit's.      *)
LEMMA FilesHold ==
    ASSUME BInv,
           \/ Redirected \/ Extract \/ LoadPlan \/ Preflight \/ Signal
           \/ \E x \in Contents : Downloaded(x)
    PROVE  BInv'
<1> USE ReleaseAssumption DEF BInv, ReleaseAssumption
<1>1. /\ UNCHANGED <<uv, world, client, found, since>>
      /\ pc' # "release" /\ (pc' = "manifest" => pc = "manifest")
    BY DEF Redirected, Fetching, Extract, LoadPlan, Preflight, Signal, Downloaded, Goto,
           setup
<1>2. Built' /\ Meanings' = Meanings /\ FromRelease' = FromRelease
    BY <1>1 DEF Built, Meanings, Published, FromRelease, world, client
<1>3. Asking' = Asking /\ pc # "idle" /\ (pc' \in AfterCommit <=> pc \in AfterCommit)
    BY DEF Redirected, Fetching, Extract, LoadPlan, Preflight, Signal, Downloaded, Goto,
           Asking, Prompting, AfterCommit, AfterManifest
<1>4. Asked'
    BY <1>1, <1>2, <1>3 DEF Asked, client
<1>5. Chosen'
    <2>1. pc # "release"
        BY DEF Redirected, Fetching, Extract, LoadPlan, Preflight, Signal, Downloaded
    <2> QED BY <1>1, <1>2, <1>3, <2>1 DEF Chosen, client, found
<1>6. Resolved'
    BY <1>1, <1>2, <1>3 DEF Resolved, client, found
<1>7. CASE Redirected
    <2>1. hops' \in 0 .. MaxRedirects /\ UNCHANGED <<setup, pc, files, root>>
        BY <1>7 DEF Redirected, TypeOK
    <2>2. TypeOK'
        BY <1>1, <2>1 DEF TypeOK, setup, world, client, found, files
    <2>3. Validated'
        BY <1>1, <1>2, <2>1 DEF Validated, Staged, Valid, client, found, files
    <2> QED BY <1>2, <1>4, <1>5, <1>6, <2>2, <2>3
<1>8. CASE \E x \in Contents : Downloaded(x)
    <2> PICK x \in Contents : Downloaded(x)
        BY <1>8
    <2>1. /\ pc = "download" /\ pc' = "extract" /\ file' = x /\ x \in Served
          /\ FromRelease => x = man.sum
          /\ UNCHANGED <<setup, man, tree, hops, root>>
        BY DEF Downloaded, Checked, Goto
    <2>2. TypeOK'
        BY <1>1, <2>1 DEF TypeOK, setup, world, client, found, PCs
    <2>3. Validated'
        BY <1>1, <1>2, <2>1 DEF Validated, Staged, Valid, Served, client, found,
                                AfterManifest
    <2> QED BY <1>2, <1>4, <1>5, <1>6, <2>2, <2>3
<1>9. CASE Extract
    <2>1. /\ pc = "extract" /\ tree' = file /\ file \in Commits
          /\ pc' = (IF via = "script" THEN "planned" ELSE "accept")
          /\ UNCHANGED <<setup, man, file, hops, root>>
        BY <1>9 DEF Extract, Opens, Goto
    <2>2. TypeOK'
        BY <1>1, <2>1 DEF TypeOK, setup, world, client, found, PCs
    <2>3. file = commit
        <3>1. CASE FromRelease
            BY <2>1, <3>1 DEF Validated, Staged, AfterManifest, Valid
        <3>2. CASE ~FromRelease
            BY <2>1, <3>2 DEF Validated, Staged, AfterManifest
        <3> QED BY <3>1, <3>2
    <2>4. Validated'
        <3>1. pc \in AfterManifest /\ Staged
            BY <2>1 DEF AfterManifest, Staged
        <3> QED BY <1>1, <1>2, <2>1, <2>3, <3>1 DEF Validated, Valid, client, found
    <2> QED BY <1>2, <1>4, <1>5, <1>6, <2>2, <2>4
<1>10. CASE LoadPlan
    <2>1. /\ pc = "planned" /\ pc' = "preflight" /\ root
          /\ UNCHANGED <<setup, files, hops, root>>
        BY <1>10 DEF LoadPlan, PlanHolds, Goto
    <2>2. TypeOK'
        BY <1>1, <2>1 DEF TypeOK, setup, world, client, found, files, PCs
    <2>3. Validated'
        BY <1>1, <1>2, <2>1 DEF Validated, Staged, Valid, client, found, files,
                                AfterManifest
    <2> QED BY <1>2, <1>4, <1>5, <1>6, <2>2, <2>3
<1>11. CASE Preflight
    <2>1. /\ pc = "preflight" /\ pc' = "accept"
          /\ FromRelease => Opens(file)
          /\ tree' = (IF FromRelease THEN file ELSE tree)
          /\ UNCHANGED <<setup, man, file, hops, root>>
        BY <1>11 DEF Preflight, Goto
    <2>2. TypeOK'
        BY <1>1, <2>1 DEF TypeOK, setup, world, client, found, PCs, Opens
    <2>3. tree' = commit
        BY <2>1 DEF Validated, Staged, AfterManifest, Valid
    <2>4. Validated'
        <3>1. pc \in AfterManifest /\ Staged
            BY <2>1 DEF AfterManifest, Staged
        <3> QED BY <1>1, <1>2, <2>1, <2>3, <3>1 DEF Validated, Valid, client, found
    <2> QED BY <1>2, <1>4, <1>5, <1>6, <2>2, <2>4
<1>12. CASE Signal
    <2>1. CASE pc \in {"fetch", "execute"}
        <3>1. pc' = pc /\ temp' = FALSE /\ UNCHANGED <<files, hops, root>>
            BY <1>12, <2>1 DEF Signal
        <3>2. ~temp' /\ temp' \in BOOLEAN
            BY <3>1
        <3>3. TypeOK'
            BY <1>1, <3>1, <3>2 DEF TypeOK, world, client, found, files
        <3>4. Validated'
            BY <2>1, <3>1 DEF Validated, AfterManifest
        <3> QED BY <1>2, <1>4, <1>5, <1>6, <3>3, <3>4
    <2>2. CASE pc = "planned"
        <3>1. /\ pc' = pc /\ root' = FALSE /\ UNCHANGED <<setup, hops>>
              /\ man' = None /\ file' = None /\ tree' = None
            BY <1>12, <2>2 DEF Signal
        <3>2. TypeOK'
            BY <1>1, <3>1 DEF TypeOK, setup, world, client, found
        <3>3. Validated'
            BY <2>2, <3>1 DEF Validated, Staged
        <3> QED BY <1>2, <1>4, <1>5, <1>6, <3>2, <3>3
    <2> QED BY <1>12, <2>1, <2>2 DEF Signal
<1> QED BY <1>7, <1>8, <1>9, <1>10, <1>11, <1>12

LEMMA StutterHolds == ASSUME BInv, UNCHANGED vars PROVE BInv'
<1>1. TypeOK' /\ Built'
    BY DEF BInv, vars, setup, world, client, found, files, TypeOK, Built
<1>2. Asked' /\ Chosen' /\ Resolved'
    BY DEF BInv, vars, setup, world, client, found, files, Asked, Chosen, Resolved,
           Asking, Meanings, Published, FromRelease
<1>3. Validated'
    BY DEF BInv, vars, client, found, files, Validated, Staged, Valid, FromRelease
<1> QED BY <1>1, <1>2, <1>3 DEF BInv

LEMMA StepHolds == BInv /\ [Next]_vars => BInv'
<1> SUFFICES ASSUME BInv, [Next]_vars PROVE BInv'
    OBVIOUS
<1>1. CASE World
    BY <1>1, WorldHolds
<1>2. CASE End
    BY <1>2, EndHolds
<1>3. CASE \/ \E s \in Selectors, v \in {"script", "direct"}, d \in BOOLEAN : Begin(s, v, d)
           \/ \E s \in Selectors : Prompt(s)
           \/ Choose \/ Confirm \/ FetchUv \/ ExecuteUv \/ InstallPython
    BY <1>3, StartHolds
<1>4. CASE (\E t \in Tags : ReadRelease(t)) \/ ReadCommit \/ ReadManifest
    BY <1>4, AnswersHold
<1>5. CASE \/ Redirected \/ Extract \/ LoadPlan \/ Preflight \/ Signal
           \/ \E x \in Contents : Downloaded(x)
    BY <1>5, FilesHold
<1>6. CASE GiveUp \/ DryRun \/ Accept \/ RequestFails \/ ResolverFails \/ ManifestFails \/ Fail
    BY <1>2, <1>6 DEF GiveUp, DryRun, Accept, RequestFails, ResolverFails, ManifestFails, Fail
<1>7. CASE UNCHANGED vars
    BY <1>7, StutterHolds
<1> QED BY <1>1, <1>3, <1>4, <1>5, <1>6, <1>7 DEF Next, Step

LEMMA Always == FairSpec => []BInv
<1>1. Init => BInv
    BY Begins
<1>2. BInv /\ [Next]_vars => BInv'
    BY StepHolds
<1> QED BY <1>1, <1>2, PTL DEF FairSpec

--------------------------------------------------------------------------------
(* Every variable stays in its set, and the uv installer never outlives its   *)
(* use on disk.                                                               *)
THEOREM TypeCorrect == FairSpec => []TypeOK
<1>1. BInv => TypeOK
    BY DEF BInv
<1> QED BY <1>1, Always, PTL

(* A tree is only accepted under a selector that it fits: the tag, the        *)
(* channel and the commit that were asked for, as they stood at some moment   *)
(* of the run, however tags, main and releases moved meanwhile.               *)
THEOREM AcceptedRequested == FairSpec => []AcceptedIsRequested
<1>1. BInv => AcceptedIsRequested
    <2> SUFFICES ASSUME BInv, pc = "accept", tree # None
                 PROVE  AcceptedIsRequested
        BY DEF AcceptedIsRequested
    <2>1. /\ Asking /\ pc # "release" /\ pc \in AfterCommit
          /\ pc \in AfterManifest /\ Staged
        BY DEF Asking, Prompting, AfterCommit, AfterManifest, Staged
    <2>2. FromRelease => tree = commit /\ <<tag, commit>> \in since
        BY <2>1 DEF BInv, Resolved, Validated
    <2>3. ask.kind \in {"stable", "prerelease"} =>
            Pre[tag] = (ask.kind = "prerelease")
        <3> SUFFICES ASSUME ask.kind \in {"stable", "prerelease"}
                     PROVE  Pre[tag] = (ask.kind = "prerelease")
            OBVIOUS
        <3>1. FromRelease
            BY DEF FromRelease
        <3>2. tag \in Tags /\ channel = ask.kind
            BY <2>1, <3>1 DEF BInv, Chosen
        <3>3. Valid(man)
            BY <2>1, <3>1 DEF BInv, Validated
        <3>4. Pre[tag] \in BOOLEAN
            BY <3>2, ReleaseAssumption DEF ReleaseAssumption
        <3> QED BY <3>2, <3>3, <3>4 DEF Valid
    <2> QED BY <2>1, <2>2, <2>3 DEF BInv, Resolved, Chosen, FromRelease, AcceptedIsRequested
<1> QED BY <1>1, Always, PTL

(* The commit that metadata will name is the commit of the accepted tree,     *)
(* except for the installer run without a plan on a commit or on main.        *)
THEOREM RecordedIsTree == FairSpec => []RecordedCommitIsTree
<1>1. BInv => RecordedCommitIsTree
    BY DEF BInv, Validated, Staged, AfterManifest, RecordedCommitIsTree
<1> QED BY <1>1, Always, PTL

--------------------------------------------------------------------------------
(* How long a run can go on.                                                  *)

(* Requests and steps that a run at label may still make.                     *)
LeftAt(label, followed) ==
    IF label \in {"idle", "prompt", "confirm"} THEN 0
    ELSE IF label = "fetch"     THEN 2 * MaxRedirects + 11
    ELSE IF label = "execute"   THEN 2 * MaxRedirects + 10
    ELSE IF label = "python"    THEN 2 * MaxRedirects + 9
    ELSE IF label = "release"   THEN 2 * MaxRedirects + 8
    ELSE IF label = "commit"    THEN 2 * MaxRedirects + 7
    ELSE IF label = "manifest"  THEN 2 * MaxRedirects - followed + 6
    ELSE IF label = "download"  THEN MaxRedirects - followed + 5
    ELSE IF label = "extract"   THEN 4
    ELSE IF label = "planned"   THEN 3
    ELSE IF label = "preflight" THEN 2
    ELSE 1

(* The run in progress, once the operator has let it go on.                   *)
Remaining == LeftAt(pc, hops)

(* Every step of a run brings it nearer to its end, a redirect too, and       *)
(* neither what changes on GitHub nor a signal puts the end off.              *)
RunShrinks ==
    [][/\ Step => Remaining' < Remaining
       /\ World \/ Signal => Remaining' = Remaining]_vars

(* Where each step of a run leads.                                            *)
LEMMA StepIs ==
    ASSUME Step
    PROVE  \/ pc \notin {"idle", "prompt", "confirm"} /\ pc' = "idle"
           \/ pc = "fetch" /\ pc' = "execute"
           \/ pc = "execute" /\ pc' = "python"
           \/ pc = "python" /\ pc' \in {"release", "commit"}
           \/ pc = "release" /\ pc' = "commit"
           \/ pc = "commit" /\ pc' \in {"manifest", "download", "accept"} /\ hops' = hops
           \/ pc = "manifest" /\ pc' = "manifest" /\ hops' = hops + 1
           \/ pc = "manifest" /\ pc' = "download" /\ hops' = 0
           \/ pc = "download" /\ pc' = "download" /\ hops' = hops + 1
           \/ pc = "download" /\ pc' = "extract"
           \/ pc = "extract" /\ pc' \in {"planned", "accept"}
           \/ pc = "planned" /\ pc' = "preflight"
           \/ pc = "preflight" /\ pc' = "accept"
<1>1. CASE FetchUv \/ ExecuteUv \/ InstallPython
    BY <1>1 DEF FetchUv, ExecuteUv, InstallPython, AskGitHub, Goto
<1>2. ASSUME NEW t \in Tags, ReadRelease(t)
      PROVE  pc = "release" /\ pc' = "commit"
    BY <1>2 DEF ReadRelease, Goto
<1>3. CASE ReadCommit \/ ReadManifest
    BY <1>3 DEF ReadCommit, ReadManifest, Goto
<1>4. CASE DryRun \/ Accept \/ RequestFails \/ ResolverFails \/ ManifestFails \/ Fail
    <2>1. pc \notin {"idle", "prompt", "confirm"} /\ End
        BY <1>4 DEF DryRun, Accept, RequestFails, ResolverFails, ManifestFails, Fail
    <2> QED BY <2>1 DEF End, Goto
<1>5. CASE Redirected
    BY <1>5 DEF Redirected, Fetching
<1>6. ASSUME NEW x \in Contents, Downloaded(x)
      PROVE  pc = "download" /\ pc' = "extract"
    BY <1>6 DEF Downloaded, Goto
<1>7. CASE Extract \/ LoadPlan \/ Preflight
    BY <1>7 DEF Extract, LoadPlan, Preflight, Goto
<1> QED BY <1>1, <1>2, <1>3, <1>4, <1>5, <1>6, <1>7 DEF Step

(* What happens outside a run leaves it where it is.                          *)
LEMMA OutsideStays == ASSUME World \/ Signal PROVE pc' = pc /\ hops' = hops
<1>1. CASE Signal
    BY <1>1 DEF Signal
<1>2. CASE World
    <2>1. Change
        BY <1>2, Zenon DEF World, MoveTag, PushMain, Withdraw, Publish, EditFlag,
                           ReplaceManifest, ReplaceArchive
    <2> QED BY <2>1 DEF Change
<1> QED BY <1>1, <1>2

LEMMA LeftIs ==
    ASSUME NEW h
    PROVE  /\ LeftAt("idle", h) = 0
           /\ LeftAt("fetch", h) = 2 * MaxRedirects + 11
           /\ LeftAt("execute", h) = 2 * MaxRedirects + 10
           /\ LeftAt("python", h) = 2 * MaxRedirects + 9
           /\ LeftAt("release", h) = 2 * MaxRedirects + 8
           /\ LeftAt("commit", h) = 2 * MaxRedirects + 7
           /\ LeftAt("manifest", h) = 2 * MaxRedirects - h + 6
           /\ LeftAt("download", h) = MaxRedirects - h + 5
           /\ LeftAt("extract", h) = 4
           /\ LeftAt("planned", h) = 3
           /\ LeftAt("preflight", h) = 2
           /\ LeftAt("accept", h) = 1
BY DEF LeftAt

(* The measure behind BootstrapEnds: eleven steps and the redirects that are  *)
(* allowed for two files end any run that waits for no answer of the operator.*)
THEOREM EveryStepShrinksTheRun ==
    FairSpec => [](Remaining \in 0 .. (2 * MaxRedirects + 11)) /\ RunShrinks
<1>1. BInv => Remaining \in 0 .. (2 * MaxRedirects + 11)
    BY ReleaseAssumption DEF BInv, TypeOK, Remaining, LeftAt
<1>2. BInv /\ BInv' /\ [Next]_vars =>
          [/\ Step => Remaining' < Remaining
           /\ World \/ Signal => Remaining' = Remaining]_vars
    <2>1. ASSUME BInv, BInv', Step
          PROVE  Remaining' < Remaining
        <3>1. MaxRedirects \in Nat /\ hops \in 0 .. MaxRedirects /\ hops' \in 0 .. MaxRedirects
            BY <2>1, ReleaseAssumption DEF BInv, TypeOK
        <3>2. CASE pc' = "idle"
            BY <2>1, <3>1, <3>2, StepIs DEF Remaining, LeftAt
        <3>3. CASE pc' # "idle" /\ pc \in {"fetch", "execute", "python", "release"}
            <4>1. \/ pc = "fetch" /\ pc' = "execute"
                  \/ pc = "execute" /\ pc' = "python"
                  \/ pc = "python" /\ pc' \in {"release", "commit"}
                  \/ pc = "release" /\ pc' = "commit"
                BY <2>1, <3>3, StepIs
            <4> QED BY <3>1, <4>1, LeftIs DEF Remaining
        <3>4. CASE pc' # "idle" /\ pc \in {"commit", "manifest"}
            <4>1. \/ pc = "commit" /\ pc' \in {"manifest", "download", "accept"}
                  \/ pc = "manifest" /\ pc' = "manifest" /\ hops' = hops + 1
                  \/ pc = "manifest" /\ pc' = "download"
                BY <2>1, <3>4, StepIs
            <4> QED BY <3>1, <3>4, <4>1, LeftIs DEF Remaining
        <3>5. CASE pc' # "idle" /\ pc = "download"
            <4>1. pc' = "extract" \/ (pc' = "download" /\ hops' = hops + 1)
                BY <2>1, <3>5, StepIs
            <4> QED BY <3>1, <3>5, <4>1, LeftIs DEF Remaining
        <3>6. CASE pc' # "idle" /\ pc \in {"extract", "planned", "preflight"}
            <4>1. \/ pc = "extract" /\ pc' \in {"planned", "accept"}
                  \/ pc = "planned" /\ pc' = "preflight"
                  \/ pc = "preflight" /\ pc' = "accept"
                BY <2>1, <3>6, StepIs
            <4> QED BY <4>1, LeftIs DEF Remaining
        <3> QED BY <2>1, <3>2, <3>3, <3>4, <3>5, <3>6, StepIs
    <2>2. ASSUME World \/ Signal
          PROVE  Remaining' = Remaining
        BY <2>2, OutsideStays DEF Remaining
    <2> QED BY <2>1, <2>2
<1> QED BY <1>1, <1>2, Always, PTL DEF FairSpec, RunShrinks
================================================================================
