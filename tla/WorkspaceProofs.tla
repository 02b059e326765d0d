-------------------------- MODULE WorkspaceProofs ---------------------------
(***************************************************************************)
(* What Workspace promises, proved for every number of users, edits,       *)
(* revisions and commands cut off: no work is lost, a head keeps what the  *)
(* one before it had, a file taken for up to date is so, and conflicts are *)
(* seen.  IndInv is kept by each action.  All but two actions leave the    *)
(* repository alone and change what one user has: Quiet is the shape of    *)
(* such a step, and QuietKeeps the part of the argument they share.        *)
(***************************************************************************)
EXTENDS Workspace, SequenceTheorems, TLAPS

Places  == {"idle"} \union Updating \union Committing
MayText == {None} \union Text
MayEntry == {None} \union Entry

\* Only u moves, and the history sets grow.
Frame(u) ==
    /\ \A v \in User \ {u} :
         /\ pc[v] = "idle" /\ pc'[v] = "idle"
         /\ file'[v] = file[v] /\ entry'[v] = entry[v] /\ saved'[v] = saved[v]
         /\ v \in marked' <=> v \in marked
         /\ v \in remerged' <=> v \in remerged
    /\ made \subseteq made' /\ discarded \subseteq discarded' /\ raced \subseteq raced'
    /\ replaced \subseteq replaced' /\ buried \subseteq buried'
    /\ HeadRev <= HeadRev' /\ \A r \in 1 .. HeadRev : revs'[r] = revs[r]

Own(u) == EntryHolds(u) /\ PlaceHolds(u) /\ MarkHolds(u)

\* A step that leaves the repository alone: u now has the file f, the entry e and
\* the copies s, and her command is at p.
Quiet(u, f, e, s, p) ==
    /\ Alone(u)
    /\ revs' = revs /\ binary' = binary /\ crashes' \in 0 .. MaxCrash
    /\ file' = [file EXCEPT ![u] = f] /\ f \in MayText
    /\ f # None => f \subseteq made'
    /\ entry' = [entry EXCEPT ![u] = e] /\ e \in MayEntry
    /\ e # None => e.rev <= HeadRev
    /\ saved' = [saved EXCEPT ![u] = s] /\ s \in [0 .. MaxRev -> MayText]
    /\ \A r \in 0 .. MaxRev : s[r] # None => s[r] \subseteq made
    /\ \A r \in 0 .. MaxRev : saved[u][r] # None =>
         \A x \in saved[u][r] : In(x, s[r]) \/ x \in replaced'
    /\ pc' = [pc EXCEPT ![u] = p] /\ p \in Places
    /\ made \subseteq made' /\ made' \subseteq Edits
    /\ \A x \in made' \ made : In(x, f)
    /\ discarded \subseteq discarded' /\ discarded' \subseteq made'
    /\ raced \subseteq raced' /\ raced' \subseteq made'
    /\ replaced \subseteq replaced' /\ replaced' \subseteq made'
    /\ buried \subseteq buried' /\ buried' \subseteq made'
    /\ marked' \ {u} = marked \ {u} /\ marked' \subseteq User
    /\ remerged' \ {u} = remerged \ {u} /\ remerged' \subseteq User

-----------------------------------------------------------------------------
(* The shared part *)

\* A user whom a step leaves alone keeps what she had: her entry names a revision
\* that is still there.
LEMMA OthersKeep ==
  ASSUME IndInv, NEW u \in User, NEW v \in User, v # u, Frame(u), TypeOK'
  PROVE  Own(v)'
<1>0. /\ TypeOK /\ EntryHolds(v) /\ PlaceHolds(v) /\ MarkHolds(v)
  BY DEF IndInv
<1>1. /\ pc[v] = "idle" /\ pc'[v] = "idle"
      /\ file'[v] = file[v] /\ entry'[v] = entry[v]
      /\ v \in marked' <=> v \in marked
      /\ v \in remerged' <=> v \in remerged
      /\ Given \subseteq Given' /\ raced \subseteq raced'
      /\ HeadRev <= HeadRev' /\ HeadRev \in Nat /\ HeadRev' \in Nat
  BY <1>0, LenProperties DEF Frame, Given, TypeOK, HeadRev
<1>2. entry[v] # None /\ entry[v].rev > 0 =>
        revs'[entry[v].rev] = revs[entry[v].rev]
  BY <1>0, <1>1 DEF Frame, TypeOK, Entry
<1>3. EntryHolds(v)'
  BY <1>0, <1>1, <1>2 DEF EntryHolds, Base, Mine, Exists, Normal
<1>4. PlaceHolds(v)'
  BY <1>1 DEF PlaceHolds, CommandKnows, OverwritesStored, FileHasHead, HeadHasFile
<1>5. MarkHolds(v)'
  <2>1. Normal(v)' <=> Normal(v)
    BY <1>1 DEF Normal
  <2>2. Exists(v)' <=> Exists(v)
    BY <1>1 DEF Exists
  <2>3. entry[v] # None => entry[v].rev \in Nat
    BY <1>0 DEF TypeOK, Entry
  <2>4. QED
    BY <1>0, <1>1, <2>1, <2>2, <2>3 DEF MarkHolds, Normal
<1>6. QED
  BY <1>3, <1>4, <1>5 DEF Own

\* What was stored stays so, and a file that changes has gone into what is stored
\* or into what is excused: then no work is lost.
LEMMA WorkKept ==
  ASSUME IndInv, NEW u \in User, Frame(u), TypeOK,
         \A x \in made' \ made : In(x, file'[u]),
         \A x \in Edits : Stored(x) => Stored(x)' \/ x \in Excused',
         \A x \in Mine(u) : In(x, file'[u]) \/ Stored(x)' \/ x \in Excused',
         made' \subseteq Edits
  PROVE  NoWorkLost'
<1> SUFFICES ASSUME NEW x \in made', x \notin Excused'
             PROVE  (\E v \in User : In(x, file'[v])) \/ Stored(x)'
  BY DEF NoWorkLost, Stored, Excused, In
<1>1. CASE x \notin made
  BY <1>1
<1>2. CASE x \in made
  <2>1. x \notin Excused
    BY DEF Frame, Excused
  <2>2. (\E v \in User : In(x, file[v])) \/ Stored(x)
    BY <1>2, <2>1 DEF IndInv, NoWorkLost, Stored, Excused
  <2>3. ASSUME NEW v \in User, In(x, file[v])
        PROVE  (\E w \in User : In(x, file'[w])) \/ Stored(x)'
    <3>1. CASE v = u
      <4>1. x \in Mine(u)
        BY <2>3, <3>1 DEF Mine, Exists, In
      <4>2. QED
        BY <4>1
    <3>2. CASE v # u
      BY <2>3, <3>2 DEF Frame, In
    <3>3. QED
      BY <3>1, <3>2
  <2>4. QED
    BY <2>2, <2>3
<1>3. QED
  BY <1>1, <1>2

\* What a quiet step is to u, and to the others.
LEMMA QuietFrame ==
  ASSUME TypeOK, NEW u \in User, NEW f, NEW e, NEW s, NEW p, Quiet(u, f, e, s, p)
  PROVE  /\ Frame(u)
         /\ file'[u] = f /\ entry'[u] = e /\ saved'[u] = s /\ pc'[u] = p
         /\ HeadRev' = HeadRev /\ HeadText' = HeadText /\ Live' = Live
<1>1. /\ file'[u] = f /\ entry'[u] = e /\ saved'[u] = s /\ pc'[u] = p
  BY DEF Quiet, TypeOK
<1>2. HeadRev \in Nat
  BY LenProperties DEF TypeOK, HeadRev
<1>3. ASSUME NEW v \in User \ {u}
      PROVE  /\ pc[v] = "idle" /\ pc'[v] = "idle"
             /\ file'[v] = file[v] /\ entry'[v] = entry[v] /\ saved'[v] = saved[v]
             /\ v \in marked' <=> v \in marked
             /\ v \in remerged' <=> v \in remerged
  <2>1. pc[v] = "idle"
    BY DEF Quiet, Alone
  <2>2. pc'[v] = pc[v] /\ file'[v] = file[v]
    BY DEF Quiet, TypeOK
  <2>3. entry'[v] = entry[v] /\ saved'[v] = saved[v]
    BY DEF Quiet, TypeOK
  <2>4. marked' \ {u} = marked \ {u} /\ remerged' \ {u} = remerged \ {u}
    BY DEF Quiet
  <2>5. QED
    BY <2>1, <2>2, <2>3, <2>4
<1>4. HeadRev' = HeadRev /\ HeadText' = HeadText /\ Live' = Live
  BY DEF Quiet, HeadRev, HeadText, Live
<1>5. Frame(u)
  <2>1. revs' = revs /\ made \subseteq made' /\ discarded \subseteq discarded'
          /\ raced \subseteq raced' /\ replaced \subseteq replaced' /\ buried \subseteq buried'
    BY DEF Quiet
  <2>2. QED
    BY <1>2, <1>3, <1>4, <2>1 DEF Frame
<1>6. QED
  BY <1>1, <1>4, <1>5

\* A quiet step keeps the types.
LEMMA QuietType ==
  ASSUME TypeOK, NEW u \in User, NEW f, NEW e, NEW s, NEW p, Quiet(u, f, e, s, p)
  PROVE  TypeOK'
<1>1. /\ binary' \in BOOLEAN
      /\ revs' \in Seq([text : Text, dead : BOOLEAN]) /\ HeadRev' <= MaxRev
  BY DEF Quiet, TypeOK, HeadRev
<1>2. file' \in [User -> {None} \union Text]
  BY DEF Quiet, TypeOK, MayText
<1>3. entry' \in [User -> {None} \union Entry]
  BY DEF Quiet, TypeOK, MayEntry
<1>4. \A v \in User : entry'[v] # None => entry'[v].rev <= HeadRev'
  <2>1. TAKE v \in User
  <2>2. HeadRev' = HeadRev
    BY QuietFrame
  <2>3. CASE v = u
    <3>1. e # None => e.rev <= HeadRev
      BY DEF Quiet
    <3>2. entry'[v] = e
      BY <2>3, QuietFrame
    <3>3. QED
      BY <2>2, <3>1, <3>2
  <2>4. CASE v # u
    <3>1. entry'[v] = entry[v]
      BY <2>4, QuietFrame DEF Frame
    <3>2. QED
      BY <2>2, <3>1 DEF TypeOK
  <2>5. QED
    BY <2>3, <2>4
<1>5. saved' \in [User -> [0 .. MaxRev -> {None} \union Text]]
  BY DEF Quiet, TypeOK, MayText
<1>6. pc' \in [User -> {"idle"} \union Updating \union Committing]
  BY DEF Quiet, TypeOK, Places
<1>7. /\ crashes' \in 0 .. MaxCrash
      /\ made' \subseteq Edits /\ discarded' \subseteq made' /\ raced' \subseteq made'
      /\ marked' \subseteq User
      /\ replaced' \subseteq made' /\ buried' \subseteq made' /\ remerged' \subseteq User
  BY DEF Quiet
<1>8. QED
  BY <1>1, <1>2, <1>3, <1>4, <1>5, <1>6, <1>7 DEF TypeOK

\* A quiet step keeps the invariant when it keeps what is said of its own user and
\* what it takes out of her file is stored or excused.
LEMMA QuietKeeps ==
  ASSUME IndInv, NEW u \in User, NEW f, NEW e, NEW s, NEW p, Quiet(u, f, e, s, p),
         \A x \in Mine(u) : In(x, f) \/ Stored(x)' \/ x \in Excused',
         Own(u)'
  PROVE  IndInv'
<1>1. TypeOK /\ OneBusy /\ TextsMade /\ HeadsKept /\ NoWorkLost
  BY DEF IndInv
<1>2. /\ Frame(u)
      /\ file'[u] = f /\ entry'[u] = e /\ saved'[u] = s /\ pc'[u] = p
      /\ HeadRev' = HeadRev /\ HeadText' = HeadText /\ Live' = Live
  BY <1>1, QuietFrame
<1>3. TypeOK'
  BY <1>1, QuietType
<1>4. OneBusy'
  BY <1>2 DEF OneBusy, Alone, Frame
<1>5. TextsMade'
  <2>1. made \subseteq made' /\ revs' = revs
    BY DEF Quiet
  <2>2. ASSUME NEW v \in User
        PROVE  /\ file'[v] # None => file'[v] \subseteq made'
               /\ \A r \in 0 .. MaxRev : saved'[v][r] # None => saved'[v][r] \subseteq made'
    <3>1. CASE v = u
      BY <1>2, <2>1, <3>1 DEF Quiet
    <3>2. CASE v # u
      <4>1. file'[v] = file[v] /\ saved'[v] = saved[v]
        BY <1>2, <3>2 DEF Frame
      <4>2. QED
        BY <1>1, <2>1, <4>1 DEF TextsMade
    <3>3. QED
      BY <3>1, <3>2
  <2>3. \A r \in 1 .. HeadRev' : revs'[r].text \subseteq made'
    BY <1>1, <1>2, <2>1 DEF TextsMade
  <2>4. QED
    BY <2>2, <2>3 DEF TextsMade
<1>6. HeadsKept'
  <2>1. revs' = revs /\ Given \subseteq Given'
    BY DEF Quiet, Given
  <2>2. QED
    BY <1>1, <1>2, <2>1 DEF HeadsKept
<1>7. NoWorkLost'
  <2>1. \A x \in Edits : Stored(x) => Stored(x)' \/ x \in Excused'
    <3> SUFFICES ASSUME NEW x \in Edits, Stored(x) PROVE Stored(x)' \/ x \in Excused'
      OBVIOUS
    <3>1. CASE \E r \in 1 .. HeadRev : x \in revs[r].text
      <4>1. \E r \in 1 .. HeadRev' : x \in revs'[r].text
        BY <1>2, <3>1 DEF Quiet
      <4>2. QED
        BY <4>1 DEF Stored
    <3>2. ASSUME NEW v \in User, NEW r \in 0 .. MaxRev, In(x, saved[v][r])
          PROVE  Stored(x)' \/ x \in Excused'
      <4>1. CASE v = u
        <5>1. In(x, s[r]) \/ x \in replaced'
          BY <3>2, <4>1 DEF Quiet, In
        <5>2. In(x, s[r]) => In(x, saved'[u][r])
          BY <1>2
        <5>3. QED
          BY <5>1, <5>2 DEF Stored, Excused, In
      <4>2. CASE v # u
        <5>1. In(x, saved'[v][r])
          BY <1>2, <3>2, <4>2 DEF Frame, In
        <5>2. QED
          BY <5>1 DEF Stored, In
      <4>3. QED
        BY <4>1, <4>2
    <3>3. QED
      BY <3>1, <3>2 DEF Stored
  <2>2. (\A x \in made' \ made : In(x, file'[u])) /\ made' \subseteq Edits
    BY <1>2 DEF Quiet
  <2>3. \A x \in Mine(u) : In(x, file'[u]) \/ Stored(x)' \/ x \in Excused'
    BY <1>2
  <2>4. QED
    BY <1>1, <1>2, <2>1, <2>2, <2>3, WorkKept
<1>8. \A v \in User : Own(v)'
  BY <1>2, <1>3, OthersKeep
<1>9. QED
  BY <1>3, <1>4, <1>5, <1>6, <1>7, <1>8 DEF IndInv, Own

-----------------------------------------------------------------------------
(* What the actions need to know *)

\* What a user has is of its type, and its edits were made; while her command
\* runs, or while none does, the others stand still.
LEMMA UserFacts ==
  ASSUME IndInv, NEW u \in User
  PROVE  /\ file[u] \in MayText /\ Mine(u) \subseteq made
         /\ entry[u] \in MayEntry /\ (entry[u] # None => entry[u].rev <= HeadRev)
         /\ saved[u] \in [0 .. MaxRev -> MayText]
         /\ \A r \in 0 .. MaxRev : saved[u][r] # None => saved[u][r] \subseteq made
         /\ pc[u] \in Places /\ (pc[u] # "idle" => Alone(u)) /\ (AllIdle => Alone(u))
         /\ HeadRev \in Nat /\ HeadRev <= MaxRev
         /\ HeadRev > 0 => HeadText \in Text /\ HeadText \subseteq made
         /\ EntryHolds(u) /\ PlaceHolds(u) /\ MarkHolds(u)
<1>1. TypeOK /\ OneBusy /\ TextsMade /\ EntryHolds(u) /\ PlaceHolds(u) /\ MarkHolds(u)
  BY DEF IndInv
<1>2. /\ file[u] \in MayText /\ entry[u] \in MayEntry
      /\ entry[u] # None => entry[u].rev <= HeadRev
      /\ saved[u] \in [0 .. MaxRev -> MayText] /\ pc[u] \in Places
  BY <1>1 DEF TypeOK, MayText, MayEntry, Places
<1>3. Mine(u) \subseteq made
      /\ \A r \in 0 .. MaxRev : saved[u][r] # None => saved[u][r] \subseteq made
  BY <1>1 DEF TextsMade, Mine, Exists
<1>4. (pc[u] # "idle" => Alone(u)) /\ (AllIdle => Alone(u))
  BY <1>1 DEF OneBusy, Alone, AllIdle
<1>5. HeadRev \in Nat /\ HeadRev <= MaxRev
  BY <1>1, LenProperties DEF TypeOK, HeadRev
<1>6. HeadRev > 0 => HeadText \in Text /\ HeadText \subseteq made
  <2>1. HeadRev > 0 => HeadRev \in 1 .. HeadRev
    BY <1>5
  <2>2. HeadRev > 0 => revs[HeadRev] \in [text : Text, dead : BOOLEAN]
    BY <1>1, <2>1, ElementOfSeq DEF TypeOK, HeadRev
  <2>3. QED
    BY <1>1, <2>1, <2>2 DEF TextsMade, HeadText
<1>7. QED
  BY <1>1, <1>2, <1>3, <1>4, <1>5, <1>6

\* A file written at another time: the entry is the same but for its time stamps.
LEMMA RestampFacts ==
  ASSUME IndInv, NEW u \in User
  PROVE  /\ Restamp(u) \in MayEntry
         /\ Restamp(u) = None <=> entry[u] = None
         /\ entry[u] # None =>
              /\ Restamp(u).rev = entry[u].rev /\ Restamp(u).rev <= HeadRev
              /\ Restamp(u).gone = entry[u].gone
              /\ Restamp(u).stamp = FALSE
              /\ Restamp(u).conflict = IF entry[u].conflict = "same" THEN "changed"
                                       ELSE entry[u].conflict
<1>1. entry[u] \in MayEntry /\ (entry[u] # None => entry[u].rev <= HeadRev)
  BY UserFacts
<1>2. CASE entry[u] = None
  BY <1>2 DEF Restamp, MayEntry
<1>3. CASE entry[u] # None
  <2>1. entry[u] \in Entry
    BY <1>1, <1>3 DEF MayEntry
  <2>2. Restamp(u) \in Entry
    BY <1>3, <2>1 DEF Restamp, Entry
  <2>3. Restamp(u) # None
    BY <2>2, EntryAssumption
  <2>4. /\ Restamp(u).rev = entry[u].rev
        /\ Restamp(u).gone = entry[u].gone
        /\ Restamp(u).stamp = FALSE
        /\ Restamp(u).conflict = IF entry[u].conflict = "same" THEN "changed"
                                 ELSE entry[u].conflict
    BY <1>3, <2>1 DEF Restamp, Entry
  <2>5. QED
    BY <1>1, <1>3, <2>2, <2>3, <2>4 DEF MayEntry
<1>4. QED
  BY <1>2, <1>3

\* The entry that Register writes.
LEMMA EntryAtFacts ==
  ASSUME NEW r \in 0 .. MaxRev, NEW stamp \in BOOLEAN,
         NEW conflict \in {"no", "same", "changed"}
  PROVE  /\ EntryAt(r, stamp, conflict) \in MayEntry
         /\ EntryAt(r, stamp, conflict) # None
         /\ EntryAt(r, stamp, conflict).rev = r
         /\ EntryAt(r, stamp, conflict).gone = FALSE
         /\ EntryAt(r, stamp, conflict).stamp = stamp
         /\ EntryAt(r, stamp, conflict).conflict = conflict
<1>1. EntryAt(r, stamp, conflict) \in Entry
  BY DEF EntryAt, Entry
<1>2. QED
  BY <1>1, EntryAssumption DEF EntryAt, MayEntry

\* The entry of a file that is its revision.
LEMMA StampedAtFacts ==
  ASSUME NEW r \in 0 .. MaxRev
  PROVE  /\ EntryAt(r, TRUE, "no") \in MayEntry /\ EntryAt(r, TRUE, "no") # None
         /\ EntryAt(r, TRUE, "no").rev = r /\ EntryAt(r, TRUE, "no").gone = FALSE
         /\ EntryAt(r, TRUE, "no").stamp = TRUE /\ EntryAt(r, TRUE, "no").conflict = "no"
<1>1. TRUE \in BOOLEAN /\ "no" \in {"no", "same", "changed"}
  OBVIOUS
<1>2. QED
  BY <1>1, EntryAtFacts

\* What is not written is written as it is.
LEMMA Same ==
  ASSUME IndInv, NEW u \in User
  PROVE  /\ file = [file EXCEPT ![u] = file[u]]
         /\ entry = [entry EXCEPT ![u] = entry[u]]
         /\ saved = [saved EXCEPT ![u] = saved[u]]
         /\ pc = [pc EXCEPT ![u] = pc[u]]
BY DEF IndInv, TypeOK

\* What is stored is in the copies and the revisions only.
LEMMA StoredSame ==
  ASSUME revs' = revs, saved' = saved, NEW x
  PROVE  Stored(x)' <=> Stored(x)
BY DEF Stored, HeadRev, In

\* The history only grows by edits that were made.
LEMMA HistoryType ==
  ASSUME IndInv
  PROVE  /\ made \subseteq Edits /\ discarded \subseteq made /\ raced \subseteq made
         /\ replaced \subseteq made /\ buried \subseteq made
         /\ marked \subseteq User /\ remerged \subseteq User
         /\ crashes \in 0 .. MaxCrash
BY DEF IndInv, TypeOK

\* Between two commands there is nothing to say of the one.
LEMMA IdlePlace ==
  ASSUME NEW u \in User, pc'[u] = "idle"
  PROVE  PlaceHolds(u)'
BY DEF PlaceHolds, CommandKnows, OverwritesStored, FileHasHead, HeadHasFile

\* There is nothing to say of a file without conflicts.
LEMMA Unmarked ==
  ASSUME NEW u \in User, u \notin marked'
  PROVE  MarkHolds(u)'
BY DEF MarkHolds

\* The quiet steps that make no edit and no copy.
Plain(u, f, e, p) ==
    /\ Alone(u) /\ f \in MayText /\ e \in MayEntry /\ p \in Places
    /\ f # None => f \subseteq made
    /\ e # None => e.rev <= HeadRev
    /\ UNCHANGED <<revs, binary, saved, made, raced, remerged>>
    /\ crashes' \in 0 .. MaxCrash
    /\ file' = [file EXCEPT ![u] = f]
    /\ entry' = [entry EXCEPT ![u] = e]
    /\ pc' = [pc EXCEPT ![u] = p]
    /\ discarded \subseteq discarded' /\ discarded' \subseteq made
    /\ replaced \subseteq replaced' /\ replaced' \subseteq made
    /\ buried \subseteq buried' /\ buried' \subseteq made
    /\ marked' \in {marked, marked \ {u}}

\* Such a step is quiet, and takes nothing out of what is stored.
LEMMA PlainQuiet ==
  ASSUME IndInv, NEW u \in User, NEW f, NEW e, NEW p, Plain(u, f, e, p)
  PROVE  /\ Quiet(u, f, e, saved[u], p)
         /\ file'[u] = f /\ entry'[u] = e /\ pc'[u] = p
         /\ HeadRev' = HeadRev /\ HeadText' = HeadText /\ Live' = Live
         /\ revs' = revs /\ raced' = raced /\ remerged' = remerged /\ made' = made
         /\ Given \subseteq Given' /\ Excused \subseteq Excused'
         /\ \A x : Stored(x)' <=> Stored(x)
<1>1. \A r \in 0 .. MaxRev : saved[u][r] # None =>
        \A x \in saved[u][r] : In(x, saved[u][r]) \/ x \in replaced'
  BY DEF In
<1>2. marked' \ {u} = marked \ {u} /\ marked' \subseteq User /\ remerged' \subseteq User
  BY HistoryType DEF Plain
<1>3. Quiet(u, f, e, saved[u], p)
  BY <1>1, <1>2, UserFacts, Same, HistoryType DEF Quiet, Plain
<1>4. revs' = revs /\ saved' = saved /\ raced' = raced /\ remerged' = remerged /\ made' = made
  BY DEF Plain
<1>5. Given \subseteq Given' /\ Excused \subseteq Excused'
  BY DEF Plain, Given, Excused
<1>6. QED
  BY <1>3, <1>4, <1>5, QuietFrame, StoredSame DEF IndInv

-----------------------------------------------------------------------------
(* The user *)

\* EditFile: an edit made while a command of hers runs counts as raced, so that
\* what the command has yet to write or to register may still miss it.
LEMMA EditFileKeeps ==
  ASSUME IndInv, NEW u \in User, EditFile(u)
  PROVE  IndInv'
<1>1. PICK x \in Edits \ made :
        /\ \A v \in User \ {u} : pc[v] = "idle"
        /\ file' = [file EXCEPT ![u] = {x} \union IF Exists(u) THEN file[u] ELSE {}]
        /\ entry' = [entry EXCEPT ![u] = Restamp(u)]
        /\ made' = made \union {x}
        /\ raced' = IF pc[u] = "idle" THEN raced ELSE raced \union {x}
        /\ marked' \in {marked, marked \ {u}}
        /\ UNCHANGED <<binary, revs, saved, pc, crashes, discarded, replaced, buried, remerged>>
  BY DEF EditFile
<1> DEFINE f == {x} \union Mine(u)
           e == Restamp(u)
<1>2. f \in MayText /\ f \subseteq made' /\ f # None
  <2>1. f \in Text /\ f \subseteq made'
    BY <1>1, UserFacts, HistoryType DEF Text
  <2>2. QED
    BY <2>1, NoneAssumption DEF MayText, Text
<1>3. Quiet(u, f, e, saved[u], pc[u])
  <2>1. file' = [file EXCEPT ![u] = f]
    BY <1>1 DEF Mine
  <2>2. e \in MayEntry /\ (e # None => e.rev <= HeadRev)
    BY RestampFacts
  <2>3. \A r \in 0 .. MaxRev : saved[u][r] # None =>
          \A y \in saved[u][r] : In(y, saved[u][r]) \/ y \in replaced'
    BY DEF In
  <2>4. Alone(u)
    BY <1>1 DEF Alone
  <2>5. \A y \in made' \ made : In(y, f)
    BY <1>1, <1>2 DEF In
  <2>6. /\ made \subseteq made' /\ made' \subseteq Edits
        /\ discarded \subseteq discarded' /\ discarded' \subseteq made'
        /\ raced \subseteq raced' /\ raced' \subseteq made'
        /\ replaced \subseteq replaced' /\ replaced' \subseteq made'
        /\ buried \subseteq buried' /\ buried' \subseteq made'
        /\ marked' \ {u} = marked \ {u} /\ marked' \subseteq User
        /\ remerged' \ {u} = remerged \ {u} /\ remerged' \subseteq User
        /\ crashes' \in 0 .. MaxCrash
    BY <1>1, HistoryType
  <2>7. QED
    BY <1>1, <1>2, <2>1, <2>2, <2>3, <2>4, <2>5, <2>6, UserFacts, Same DEF Quiet
<1>4. /\ file'[u] = f /\ entry'[u] = e /\ pc'[u] = pc[u]
      /\ HeadRev' = HeadRev /\ HeadText' = HeadText /\ Live' = Live
  BY <1>3, QuietFrame DEF IndInv
<1>5. Exists(u)' /\ Mine(u)' = f /\ (Normal(u)' <=> Normal(u))
  BY <1>2, <1>4, RestampFacts DEF Exists, Mine, Normal
<1>6. \A y : Stored(y)' <=> Stored(y)
  BY <1>1, StoredSame
<1>7. EntryHolds(u)'
  <2>1. entry[u] # None => Base(u)' = Base(u)
    BY <1>1, <1>4, RestampFacts DEF Base
  <2>2. Given' = Given
    BY <1>1 DEF Given
  <2>3. Mine(u) \subseteq Mine(u)'
    BY <1>5
  <2>4. QED
    <3>1. revs' = revs /\ EntryHolds(u)
      BY <1>1, UserFacts
    <3>2. (entry'[u] = None <=> entry[u] = None) /\
          (entry[u] # None => /\ entry'[u].rev = entry[u].rev /\ entry'[u].gone = entry[u].gone
                             /\ entry'[u].stamp = FALSE)
      BY <1>4, RestampFacts
    <3>3. QED
      BY <2>1, <2>2, <2>3, <3>1, <3>2 DEF EntryHolds, Normal
<1>8. PlaceHolds(u)'
  <2>1. CASE pc[u] = "idle"
    BY <1>4, <2>1, IdlePlace
  <2>2. CASE pc[u] # "idle"
    <3>1. x \in raced' /\ raced \subseteq raced' /\ Given' = Given /\ Excused \subseteq Excused'
      BY <1>1, <2>2 DEF Given, Excused
    <3>2. Mine(u) \subseteq Excused \union {y \in made : Stored(y)} =>
            Mine(u)' \subseteq Excused' \union {y \in made' : Stored(y)'}
      BY <1>1, <1>5, <1>6, <3>1 DEF Excused
    <3>3. Mine(u) \ HeadText \subseteq raced => Mine(u)' \ HeadText' \subseteq raced'
      BY <1>4, <1>5, <3>1
    <3>4. Exists(u) => HeadText' \ file'[u] \subseteq HeadText \ file[u]
      BY <1>4 DEF Mine
    <3>5. /\ CommandKnows(u) /\ OverwritesStored(u) /\ FileHasHead(u) /\ HeadHasFile(u)
      BY UserFacts DEF PlaceHolds
    <3>6. CommandKnows(u)'
      BY <1>1, <1>4, <1>5, <3>5, RestampFacts DEF CommandKnows
    <3>7. OverwritesStored(u)'
      BY <1>4, <3>2, <3>5 DEF OverwritesStored
    <3>8. FileHasHead(u)'
      BY <1>4, <3>1, <3>4, <3>5 DEF FileHasHead, CommandKnows
    <3>9. HeadHasFile(u)'
      BY <1>4, <3>3, <3>5, RestampFacts DEF HeadHasFile, Normal
    <3>10. QED
      BY <3>6, <3>7, <3>8, <3>9 DEF PlaceHolds
  <2>3. QED
    BY <2>1, <2>2
<1>9. MarkHolds(u)'
  <2>1. u \in marked' => u \in marked
    BY <1>1
  <2>2. u \in marked => /\ entry[u] # None
                        /\ e.stamp = FALSE /\ e.rev = entry[u].rev
                        /\ entry[u].conflict # "no" => e.conflict # "no"
                        /\ entry[u].conflict = "changed" => e.conflict = "changed"
    BY UserFacts, RestampFacts DEF MarkHolds, Normal
  <2>3. MarkHolds(u) /\ remerged' = remerged
    BY <1>1, UserFacts
  <2>4. QED
    BY <1>4, <1>5, <2>1, <2>2, <2>3 DEF MarkHolds
<1>10. \A y \in Mine(u) : In(y, f)
  BY <1>2 DEF In
<1>11. QED
  BY <1>3, <1>7, <1>8, <1>9, <1>10, QuietKeeps DEF Own

\* TouchFile: the file is as it was, and the entry no longer vouches for it.
LEMMA TouchFileKeeps ==
  ASSUME IndInv, NEW u \in User, TouchFile(u)
  PROVE  IndInv'
<1>1. /\ Alone(u) /\ pc[u] = "idle"
      /\ entry' = [entry EXCEPT ![u] = Restamp(u)]
      /\ UNCHANGED <<binary, revs, file, saved, pc, crashes, history>>
  BY UserFacts DEF TouchFile, AllIdle
<1>2. /\ Quiet(u, file[u], Restamp(u), saved[u], "idle")
      /\ file'[u] = file[u] /\ entry'[u] = Restamp(u) /\ pc'[u] = "idle"
      /\ HeadRev' = HeadRev
  <2>1. Plain(u, file[u], Restamp(u), "idle")
    BY <1>1, UserFacts, Same, HistoryType, RestampFacts DEF Plain, history, Mine, Exists
  <2>2. QED
    BY <2>1, PlainQuiet
<1>3. EntryHolds(u)'
  BY <1>1, <1>2, UserFacts, RestampFacts
     DEF EntryHolds, Normal, Base, Mine, Exists, Given, history
<1>4. MarkHolds(u)'
  <2>1. marked' = marked /\ remerged' = remerged
    BY <1>1 DEF history
  <2>2. MarkHolds(u)
    BY UserFacts
  <2>3. u \in marked => Exists(u)' /\ Normal(u)' /\ ~entry'[u].stamp
    BY <1>2, <2>2, RestampFacts DEF MarkHolds, Normal, Exists
  <2>4. u \in marked \ remerged => entry[u].rev < HeadRev \/ entry[u].conflict # "no"
    BY <2>2 DEF MarkHolds
  <2>5. u \in marked => entry[u] # None
    BY <2>2 DEF MarkHolds, Normal
  <2>6. u \in marked \ remerged => entry'[u].rev < HeadRev' \/ entry'[u].conflict # "no"
    BY <1>2, <2>4, <2>5, RestampFacts
  <2> QED
    BY <1>2, <2>1, <2>3, <2>6 DEF MarkHolds
<1>5. \A x \in Mine(u) : In(x, file[u])
  BY DEF Mine, Exists, In
<1>6. QED
  BY <1>2, <1>3, <1>4, <1>5, IdlePlace, QuietKeeps DEF Own

\* DeleteFile: what was in the file is discarded.
LEMMA DeleteFileKeeps ==
  ASSUME IndInv, NEW u \in User, DeleteFile(u)
  PROVE  IndInv'
<1>1. /\ Alone(u) /\ pc[u] = "idle" /\ Mine(u) = file[u]
      /\ file' = [file EXCEPT ![u] = None]
      /\ discarded' = discarded \union Mine(u)
      /\ marked' = marked \ {u}
      /\ entry' = [entry EXCEPT ![u] = Restamp(u)]
      /\ UNCHANGED <<binary, revs, saved, pc, crashes, made, raced, replaced, buried, remerged>>
  BY UserFacts DEF DeleteFile, AllIdle, Mine
<1>2. /\ Quiet(u, None, Restamp(u), saved[u], "idle")
      /\ file'[u] = None /\ entry'[u] = Restamp(u) /\ pc'[u] = "idle"
  <2>1. None \in MayText
    BY DEF MayText
  <2>2. Plain(u, None, Restamp(u), "idle")
    BY <1>1, <2>1, UserFacts, Same, HistoryType, RestampFacts DEF Plain
  <2>3. QED
    BY <2>2, PlainQuiet
<1>3. EntryHolds(u)'
  <2>1. Given \union Mine(u) \subseteq Given'
    BY <1>1 DEF Given
  <2>2. ~Exists(u)'
    BY <1>2 DEF Exists
  <2>3. entry[u] # None => Base(u)' = Base(u)
    BY <1>1, <1>2, RestampFacts DEF Base
  <2>4. Mine(u)' = {} /\ revs' = revs
    BY <1>1, <2>2 DEF Mine
  <2>5. entry[u] # None /\ entry[u].rev > 0 => Base(u) \subseteq Given'
    BY <2>1, UserFacts DEF EntryHolds
  <2>6. QED
    BY <1>2, <2>1, <2>2, <2>3, <2>4, <2>5, UserFacts, RestampFacts DEF EntryHolds
<1>4. MarkHolds(u)'
  BY <1>1, Unmarked
<1>5. \A x \in Mine(u) : x \in Excused'
  BY <1>1 DEF Excused
<1>6. QED
  BY <1>2, <1>3, <1>4, <1>5, IdlePlace, QuietKeeps DEF Own

\* Crash: what a command leaves behind is as good as what another would find.
LEMMA CrashKeeps ==
  ASSUME IndInv, NEW u \in User, Crash(u)
  PROVE  IndInv'
<1>1. /\ Alone(u)
      /\ crashes' \in 0 .. MaxCrash
      /\ pc' = [pc EXCEPT ![u] = "idle"]
      /\ UNCHANGED <<binary, revs, file, entry, saved, history>>
  BY UserFacts, HistoryType, BoundAssumption DEF Crash, Goto
<1>2. /\ Quiet(u, file[u], entry[u], saved[u], "idle")
      /\ file'[u] = file[u] /\ entry'[u] = entry[u] /\ pc'[u] = "idle"
      /\ HeadRev' = HeadRev
  <2>1. "idle" \in Places
    BY DEF Places
  <2>2. Plain(u, file[u], entry[u], "idle")
    BY <1>1, <2>1, UserFacts, Same, HistoryType DEF Plain, history, Mine, Exists
  <2>3. QED
    BY <2>2, PlainQuiet
<1>3. EntryHolds(u)'
  BY <1>1, <1>2, UserFacts
     DEF EntryHolds, Normal, Base, Mine, Exists, Given, history
<1>4. MarkHolds(u)'
  BY <1>1, <1>2, UserFacts DEF MarkHolds, Normal, Exists, history
<1>5. \A x \in Mine(u) : In(x, file[u])
  BY DEF Mine, Exists, In
<1>6. QED
  BY <1>2, <1>3, <1>4, <1>5, IdlePlace, QuietKeeps DEF Own

-----------------------------------------------------------------------------
(* update *)

\* What each answer of Classify_File says of the file, the entry and the head.
LEMMA ClassifyFacts ==
  ASSUME IndInv, NEW u \in User
  PROVE  /\ Classify_File(u) \in {"UNKNOWN", "UPTODATE", "CONFLICT", "CHECKOUT", "REMOVE_ENTRY",
                                  "ADDED", "REMOVED", "MODIFIED", "NEEDS_MERGE", "PATCH"}
         /\ Classify_File(u) = "PATCH" =>
              Live /\ Normal(u) /\ Exists(u) /\ ~Differs(u) /\ entry[u].rev < HeadRev
         /\ Classify_File(u) = "CHECKOUT" =>
              Live /\ \/ Normal(u) /\ ~Exists(u)
                      \/ entry[u] = None /\ (Exists(u) => SameText(u, HeadText))
         /\ Classify_File(u) = "NEEDS_MERGE" =>
              Live /\ Normal(u) /\ Exists(u) /\ Differs(u) /\ entry[u].rev < HeadRev
         /\ Classify_File(u) = "MODIFIED" =>
              Live /\ Normal(u) /\ Exists(u) /\ Differs(u) /\ entry[u].rev = HeadRev
         /\ Classify_File(u) = "UPTODATE" =>
              \/ Live /\ Normal(u) /\ Exists(u) /\ ~Differs(u) /\ entry[u].rev = HeadRev
              \/ entry[u] = None /\ ~Exists(u) /\ ~Live
         /\ Classify_File(u) = "REMOVE_ENTRY" =>
              entry[u] # None /\ (~Exists(u) \/ (Normal(u) /\ ~Differs(u)))
         /\ Classify_File(u) = "ADDED" =>
              entry[u] # None /\ entry[u].rev = 0 /\ Exists(u) /\ ~Live
         /\ Classify_File(u) = "REMOVED" => entry[u] # None /\ entry[u].gone
         /\ Classify_File(u) = "UNKNOWN" => entry[u] = None
         /\ Classify_File(u) = "CONFLICT" /\ Normal(u) => ~Live /\ Exists(u) /\ Differs(u)
<1>1. entry[u] \in MayEntry /\ (entry[u] # None => entry[u].rev <= HeadRev)
        /\ HeadRev \in Nat
  BY UserFacts
<1>2. entry[u] # None => entry[u].rev \in Nat /\ entry[u].gone \in BOOLEAN
  BY <1>1 DEF MayEntry, Entry
<1>3. CASE entry[u] = None
  BY <1>3 DEF Classify_File, Normal
<1>4. CASE entry[u] # None /\ entry[u].rev = 0
  <2>1. entry[u].gone = FALSE
    BY <1>2, <1>4, UserFacts DEF EntryHolds
  <2>2. Classify_File(u) =
          IF ~Exists(u) THEN "REMOVE_ENTRY" ELSE IF Live THEN "CONFLICT" ELSE "ADDED"
    BY <1>4, <2>1 DEF Classify_File, Normal
  <2>3. QED
    BY <1>4, <2>2 DEF Normal
<1>5. CASE entry[u] # None /\ entry[u].rev > 0 /\ entry[u].gone
  <2>1. Classify_File(u) =
          IF Exists(u) THEN "REMOVED"
          ELSE IF ~Live THEN "REMOVE_ENTRY"
          ELSE IF entry[u].rev = HeadRev THEN "REMOVED" ELSE "CONFLICT"
    BY <1>2, <1>5 DEF Classify_File, Normal
  <2>2. QED
    BY <1>5, <2>1 DEF Normal
<1>6. CASE Normal(u)
  <2>1. Classify_File(u) =
          IF ~Live THEN IF Exists(u) /\ Differs(u) THEN "CONFLICT" ELSE "REMOVE_ENTRY"
          ELSE IF ~Exists(u) THEN "CHECKOUT"
          ELSE IF entry[u].rev = HeadRev
            THEN IF Differs(u) THEN "MODIFIED" ELSE "UPTODATE"
            ELSE IF Differs(u) THEN "NEEDS_MERGE" ELSE "PATCH"
    BY <1>2, <1>6 DEF Classify_File, Normal
  <2>2. entry[u] # None /\ (entry[u].rev # HeadRev => entry[u].rev < HeadRev)
    BY <1>1, <1>2, <1>6 DEF Normal
  <2>3. QED
    BY <1>6, <2>1, <2>2
<1>7. QED
  BY <1>2, <1>3, <1>4, <1>5, <1>6 DEF Normal

\* No_Difference registers a file only with the revision that it equals.
LEMMA SettledFacts ==
  ASSUME IndInv, NEW u \in User
  PROVE  /\ Settled(u) \in MayEntry /\ (Settled(u) # None => Settled(u).rev <= HeadRev)
         /\ \/ Settled(u) = entry[u]
            \/ /\ entry[u] = None /\ Live /\ SameText(u, HeadText)
               /\ Settled(u) = EntryAt(HeadRev, TRUE, "no")
            \/ /\ Normal(u) /\ Exists(u) /\ ~entry[u].stamp /\ SameText(u, Base(u))
               /\ Settled(u) = EntryAt(entry[u].rev, TRUE, "no")
         /\ u \in marked => Settled(u) = entry[u]
         /\ entry[u] # None /\ entry[u].gone => Settled(u) = entry[u]
<1>1. \/ Settled(u) = entry[u]
      \/ /\ entry[u] = None /\ Live /\ SameText(u, HeadText)
         /\ Settled(u) = EntryAt(HeadRev, TRUE, "no")
      \/ /\ Normal(u) /\ Exists(u) /\ ~entry[u].stamp /\ SameText(u, Base(u))
         /\ Settled(u) = EntryAt(entry[u].rev, TRUE, "no")
  BY DEF Settled, Differs
<1>2. u \in marked \/ (entry[u] # None /\ entry[u].gone) => Settled(u) = entry[u]
  BY <1>1 DEF SameText, Normal
<1>3. HeadRev \in 0 .. MaxRev /\ HeadRev <= HeadRev
  BY UserFacts, BoundAssumption
<1>4. Normal(u) => entry[u].rev \in 0 .. MaxRev /\ entry[u].rev <= HeadRev
  BY UserFacts DEF Normal, MayEntry, Entry
<1>5. EntryAt(HeadRev, TRUE, "no") \in MayEntry /\ EntryAt(HeadRev, TRUE, "no").rev <= HeadRev
  BY <1>3, StampedAtFacts
<1>6. Normal(u) => /\ EntryAt(entry[u].rev, TRUE, "no") \in MayEntry
                   /\ EntryAt(entry[u].rev, TRUE, "no").rev <= HeadRev
  BY <1>4, StampedAtFacts
<1>7. QED
  BY <1>1, <1>2, <1>5, <1>6, UserFacts

\* An entry that No_Difference registers holds.
LEMMA SettledHolds ==
  ASSUME IndInv, NEW u \in User, entry'[u] = Settled(u), file'[u] = file[u],
         revs' = revs, Given \subseteq Given', raced \subseteq raced'
  PROVE  EntryHolds(u)'
<1>1. Mine(u)' = Mine(u) /\ (Exists(u)' <=> Exists(u)) /\ EntryHolds(u)
  BY UserFacts DEF Mine, Exists
<1>2. CASE Settled(u) = entry[u]
  BY <1>1, <1>2 DEF EntryHolds, Normal, Base
<1>3. CASE /\ entry[u] = None /\ Live /\ SameText(u, HeadText)
           /\ Settled(u) = EntryAt(HeadRev, TRUE, "no")
  <2>1. HeadRev \in 0 .. MaxRev /\ HeadRev > 0
    BY <1>3, UserFacts, BoundAssumption DEF Live
  <2>2. /\ entry'[u] # None /\ entry'[u].rev = HeadRev /\ entry'[u].gone = FALSE
    <3>1. entry'[u] \in Entry /\ entry'[u].rev = HeadRev /\ entry'[u].gone = FALSE
      BY <1>3, <2>1 DEF EntryAt, Entry
    <3>2. QED
      BY <3>1, EntryAssumption
  <2>3. Base(u)' = file[u] /\ ~revs'[HeadRev].dead
    BY <1>3, <2>2 DEF Base, HeadText, SameText, Live
  <2>4. Exists(u)
    BY <1>3, <2>1, UserFacts, NoneAssumption DEF SameText, Exists, Text
  <2>5. QED
    BY <1>1, <2>2, <2>3, <2>4 DEF EntryHolds, Mine
<1>4. CASE /\ Normal(u) /\ Exists(u) /\ SameText(u, Base(u))
           /\ Settled(u) = EntryAt(entry[u].rev, TRUE, "no")
  <2>1. entry[u].rev \in 0 .. MaxRev /\ entry[u].rev > 0 /\ entry[u] # None
    BY <1>4, UserFacts DEF Normal, MayEntry, Entry
  <2>2. entry'[u] # None /\ entry'[u].rev = entry[u].rev /\ entry'[u].gone = FALSE
    <3>1. PICK r \in 0 .. MaxRev : r = entry[u].rev
      BY <2>1
    <3>2. entry'[u] = EntryAt(r, TRUE, "no")
      BY <1>4, <3>1
    <3>3. entry'[u] # None /\ entry'[u].rev = r /\ entry'[u].gone = FALSE
      BY <3>2, StampedAtFacts
    <3>4. QED
      BY <3>1, <3>3
  <2>3. Base(u)' = Base(u) /\ Base(u) = file[u]
    BY <1>4, <2>2 DEF Base, SameText
  <2>4. QED
    BY <1>1, <1>4, <2>1, <2>2, <2>3 DEF EntryHolds, Mine
<1>5. QED
  BY <1>2, <1>3, <1>4, SettledFacts

\* The texts of the revisions are stored.
LEMMA HeadStored ==
  ASSUME IndInv, NEW u \in User, HeadRev > 0
  PROVE  \A x \in HeadText : Stored(x)
<1>1. HeadRev \in 1 .. HeadRev
  BY UserFacts
<1>2. QED
  BY <1>1 DEF Stored, HeadText

\* So is the text of the revision that an entry names.
LEMMA BaseStored ==
  ASSUME IndInv, NEW u \in User, entry[u] # None, entry[u].rev > 0
  PROVE  \A x \in Base(u) : Stored(x)
<1>1. entry[u].rev \in 1 .. HeadRev
  BY UserFacts DEF MayEntry, Entry
<1>2. QED
  BY <1>1 DEF Stored, Base

\* A file that Classify_File finds unchanged has nothing but what its revision
\* has, and what a race has put there.
LEMMA UnchangedStored ==
  ASSUME IndInv, NEW u \in User, Normal(u), ~Differs(u)
  PROVE  Mine(u) \subseteq Excused \union {x \in made : Stored(x)}
<1>1. \A x \in Base(u) : Stored(x)
  BY BaseStored DEF Normal
<1>2. Mine(u) \subseteq raced \union Base(u)
  BY UserFacts DEF Differs, SameText, EntryHolds, Mine
<1>3. QED
  BY <1>1, <1>2, UserFacts DEF Excused

\* The ways an update can go on.
LEMMA UpdateCases ==
  ASSUME IndInv, NEW u \in User, NEW toss \in BOOLEAN, Update(u, toss)
  PROVE  /\ Alone(u) /\ (pc[u] = "idle" \/ pc[u] = "resurrect")
         /\ UNCHANGED <<binary, revs, file, crashes, made, raced, marked, buried, remerged>>
         /\ \/ /\ Classify_File(u) \in {"PATCH", "CHECKOUT"}
               /\ Goto(u, "checkout") /\ SetEntry(u, Settled(u))
               /\ UNCHANGED <<saved, discarded, replaced>>
            \/ /\ Classify_File(u) = "NEEDS_MERGE"
               /\ Goto(u, "merge") /\ UNCHANGED <<entry, saved, discarded, replaced>>
            \/ /\ Classify_File(u) \in {"MODIFIED", "NEEDS_MERGE"}
               /\ Goto(u, "checkout") /\ Save(u)
               /\ discarded' = discarded \union file[u]
               /\ UNCHANGED entry
            \/ /\ Classify_File(u) = "MODIFIED"
               /\ Goto(u, "idle") /\ SetEntry(u, Resolved(u))
               /\ UNCHANGED <<saved, discarded, replaced>>
            \/ /\ Classify_File(u) = "REMOVE_ENTRY"
               /\ Goto(u, "unlink") /\ SetEntry(u, None)
               /\ UNCHANGED <<saved, discarded, replaced>>
            \/ /\ Classify_File(u) \in {"UNKNOWN", "UPTODATE", "CONFLICT", "ADDED", "REMOVED"}
               /\ Goto(u, "idle") /\ SetEntry(u, Settled(u))
               /\ UNCHANGED <<saved, discarded, replaced>>
<1>1. Alone(u) /\ (pc[u] = "idle" \/ pc[u] = "resurrect")
  BY UserFacts DEF Update, AllIdle
<1>2. UNCHANGED <<binary, revs, file, crashes, made, raced, marked, buried, remerged>>
  BY DEF Update
<1>3. Classify_File(u) \in {"UNKNOWN", "UPTODATE", "CONFLICT", "CHECKOUT", "REMOVE_ENTRY",
                            "ADDED", "REMOVED", "MODIFIED", "NEEDS_MERGE", "PATCH"}
  BY ClassifyFacts
<1>4. CASE Classify_File(u) \in {"PATCH", "CHECKOUT"}
  BY <1>1, <1>2, <1>4 DEF Update
<1>5. CASE Classify_File(u) = "NEEDS_MERGE" /\ ~toss
  BY <1>1, <1>2, <1>5 DEF Update
<1>6. CASE Classify_File(u) \in {"MODIFIED", "NEEDS_MERGE"} /\ toss
  BY <1>1, <1>2, <1>6 DEF Update
<1>7. CASE Classify_File(u) = "MODIFIED" /\ ~toss
  BY <1>1, <1>2, <1>7 DEF Update
<1>8. CASE Classify_File(u) = "REMOVE_ENTRY"
  BY <1>1, <1>2, <1>8 DEF Update
<1>9. CASE Classify_File(u) \in {"UNKNOWN", "UPTODATE", "CONFLICT", "ADDED", "REMOVED"}
  BY <1>1, <1>2, <1>9 DEF Update
<1>10. QED
  BY <1>3, <1>4, <1>5, <1>6, <1>7, <1>8, <1>9

\* A step that keeps the file, and only classifies it and goes on to p.
LEMMA SettledStep ==
  ASSUME IndInv, NEW u \in User, NEW p \in Places, Alone(u),
         Goto(u, p), SetEntry(u, Settled(u)), marked' \in {marked, marked \ {u}},
         UNCHANGED <<binary, revs, file, saved, crashes, made, discarded, raced, replaced,
                     buried, remerged>>
  PROVE  /\ Plain(u, file[u], Settled(u), p)
         /\ EntryHolds(u)'
         /\ PlaceHolds(u)' /\ MarkHolds(u)' => IndInv'
<1>1. Plain(u, file[u], Settled(u), p)
  BY UserFacts, SettledFacts, Same, HistoryType DEF Plain, Goto, SetEntry, Mine, Exists
<1>2. EntryHolds(u)'
  BY <1>1, PlainQuiet, SettledHolds
<1>3. \A x \in Mine(u) : In(x, file[u])
  BY DEF Mine, Exists, In
<1>4. QED
  BY <1>1, <1>2, <1>3, PlainQuiet, QuietKeeps DEF Own

\* Update with nothing to write to the file.
LEMMA UpdateSettledKeeps ==
  ASSUME IndInv, NEW u \in User, Alone(u), Goto(u, "idle"), SetEntry(u, Settled(u)),
         UNCHANGED <<binary, revs, file, saved, crashes, made, discarded, raced, marked,
                     replaced, buried, remerged>>
  PROVE  IndInv'
<1>1. "idle" \in Places
  BY DEF Places
<1>2. /\ Plain(u, file[u], Settled(u), "idle")
      /\ PlaceHolds(u)' /\ MarkHolds(u)' => IndInv'
  BY <1>1, SettledStep
<1>3. /\ pc'[u] = "idle" /\ file'[u] = file[u] /\ entry'[u] = Settled(u)
      /\ HeadRev' = HeadRev /\ remerged' = remerged /\ marked' = marked
  BY <1>2, PlainQuiet
<1>4. MarkHolds(u)'
  BY <1>3, UserFacts, SettledFacts DEF MarkHolds, Normal, Exists
<1>5. QED
  BY <1>2, <1>3, <1>4, IdlePlace

\* Update before checkout_file: what is in the file is stored, or a race put it there.
LEMMA UpdateCheckoutKeeps ==
  ASSUME IndInv, NEW u \in User, Alone(u), Classify_File(u) \in {"PATCH", "CHECKOUT"},
         Goto(u, "checkout"), SetEntry(u, Settled(u)),
         UNCHANGED <<binary, revs, file, saved, crashes, made, discarded, raced, marked,
                     replaced, buried, remerged>>
  PROVE  IndInv'
<1>1. "checkout" \in Places
  BY DEF Places, Updating
<1>2. /\ Plain(u, file[u], Settled(u), "checkout")
      /\ PlaceHolds(u)' /\ MarkHolds(u)' => IndInv'
  BY <1>1, SettledStep
<1>3. /\ pc'[u] = "checkout" /\ file'[u] = file[u] /\ entry'[u] = Settled(u)
      /\ HeadRev' = HeadRev /\ remerged' = remerged /\ marked' = marked /\ Live' = Live
      /\ Excused \subseteq Excused' /\ made' = made
      /\ \A x : Stored(x)' <=> Stored(x)
  BY <1>2, PlainQuiet
<1>4. MarkHolds(u)'
  BY <1>3, UserFacts, SettledFacts DEF MarkHolds, Normal, Exists
<1>5. Mine(u) \subseteq Excused \union {x \in made : Stored(x)}
  <2>1. CASE Normal(u) /\ Exists(u) /\ ~Differs(u)
    BY <2>1, UnchangedStored
  <2>2. CASE ~Exists(u)
    BY <2>2 DEF Mine
  <2>3. CASE Live /\ SameText(u, HeadText)
    <3>1. Mine(u) \subseteq HeadText
      BY <2>3 DEF SameText, Mine
    <3>2. QED
      BY <2>3, <3>1, HeadStored, UserFacts DEF Live
  <2>4. QED
    BY <2>1, <2>2, <2>3, ClassifyFacts
<1>6. PlaceHolds(u)'
  <2>1. Live'
    BY <1>3, ClassifyFacts
  <2>2. CommandKnows(u)'
    BY <1>3, <2>1 DEF CommandKnows
  <2>3. Mine(u)' = Mine(u)
    BY <1>3 DEF Mine, Exists
  <2>4. OverwritesStored(u)'
    BY <1>3, <1>5, <2>3 DEF OverwritesStored
  <2>5. FileHasHead(u)' /\ HeadHasFile(u)'
    BY <1>3 DEF FileHasHead, HeadHasFile
  <2>6. QED
    BY <2>2, <2>4, <2>5 DEF PlaceHolds
<1>7. QED
  BY <1>2, <1>4, <1>6

\* Update before merge_file.
LEMMA UpdateMergeKeeps ==
  ASSUME IndInv, NEW u \in User, Alone(u), Classify_File(u) = "NEEDS_MERGE",
         pc[u] = "idle" \/ pc[u] = "resurrect", Goto(u, "merge"),
         UNCHANGED <<binary, revs, file, entry, saved, crashes, made, discarded, raced, marked,
                     replaced, buried, remerged>>
  PROVE  IndInv'
<1>1. Plain(u, file[u], entry[u], "merge")
  <2>1. "merge" \in Places
    BY DEF Places, Updating
  <2>2. QED
    BY <2>1, UserFacts, Same, HistoryType DEF Plain, Goto, Mine, Exists
<1>2. /\ pc'[u] = "merge" /\ file'[u] = file[u] /\ entry'[u] = entry[u]
      /\ HeadRev' = HeadRev /\ Live' = Live
  BY <1>1, PlainQuiet
<1>3. EntryHolds(u)'
  BY <1>2, UserFacts DEF EntryHolds, Normal, Base, Mine, Exists, Given
<1>4. MarkHolds(u)'
  BY <1>2, UserFacts DEF MarkHolds, Normal, Exists
<1>5. Live /\ Normal(u) /\ Exists(u) /\ entry[u].rev < HeadRev
  BY ClassifyFacts
<1>6. PlaceHolds(u)'
  BY <1>2, <1>5 DEF PlaceHolds, CommandKnows, OverwritesStored, FileHasHead, HeadHasFile,
                    Normal, Exists
<1>7. \A x \in Mine(u) : In(x, file[u])
  BY DEF Mine, Exists, In
<1>8. QED
  BY <1>1, <1>3, <1>4, <1>6, <1>7, PlainQuiet, QuietKeeps DEF Own

\* Update of a modified file: only the conflict in the entry may go.
LEMMA UpdateResolvedKeeps ==
  ASSUME IndInv, NEW u \in User, Alone(u), Classify_File(u) = "MODIFIED",
         Goto(u, "idle"), SetEntry(u, Resolved(u)),
         UNCHANGED <<binary, revs, file, saved, crashes, made, discarded, raced, marked,
                     replaced, buried, remerged>>
  PROVE  IndInv'
<1>1. Live /\ Normal(u) /\ Exists(u) /\ entry[u].rev = HeadRev
  BY ClassifyFacts
<1>2. entry[u] \in Entry /\ entry[u] # None
  BY <1>1, UserFacts DEF Normal, MayEntry
<1>3. /\ Resolved(u) \in Entry /\ Resolved(u).rev = entry[u].rev
      /\ Resolved(u).gone = entry[u].gone /\ Resolved(u).stamp = entry[u].stamp
      /\ u \in marked => Resolved(u) = entry[u]
  BY <1>2 DEF Resolved, Entry
<1>4. Resolved(u) # None /\ Resolved(u) \in MayEntry
  BY <1>3, EntryAssumption DEF MayEntry
<1>5. Plain(u, file[u], Resolved(u), "idle")
  <2>1. "idle" \in Places
    BY DEF Places
  <2>2. QED
    BY <1>2, <1>3, <1>4, <2>1, UserFacts, Same, HistoryType
       DEF Plain, Goto, SetEntry, Mine, Exists
<1>6. /\ pc'[u] = "idle" /\ file'[u] = file[u] /\ entry'[u] = Resolved(u)
      /\ HeadRev' = HeadRev /\ Live' = Live
  BY <1>5, PlainQuiet
<1>7. EntryHolds(u)'
  BY <1>2, <1>3, <1>4, <1>6, UserFacts DEF EntryHolds, Normal, Base, Mine, Exists, Given
<1>8. MarkHolds(u)'
  BY <1>3, <1>6, UserFacts DEF MarkHolds, Normal, Exists
<1>9. \A x \in Mine(u) : In(x, file[u])
  BY DEF Mine, Exists, In
<1>10. QED
  BY <1>5, <1>6, <1>7, <1>8, <1>9, IdlePlace, PlainQuiet, QuietKeeps DEF Own

\* Update of a file whose entry has nothing to stand for: the file that goes is
\* missing, or is that of a revision.
LEMMA UpdateRemoveEntryKeeps ==
  ASSUME IndInv, NEW u \in User, Alone(u), Classify_File(u) = "REMOVE_ENTRY",
         Goto(u, "unlink"), SetEntry(u, None),
         UNCHANGED <<binary, revs, file, saved, crashes, made, discarded, raced, marked,
                     replaced, buried, remerged>>
  PROVE  IndInv'
<1>1. ~Exists(u) \/ (Normal(u) /\ ~Differs(u))
  BY ClassifyFacts
<1>2. Plain(u, file[u], None, "unlink")
  <2>1. "unlink" \in Places /\ None \in MayEntry
    BY DEF Places, Updating, MayEntry
  <2>2. QED
    BY <2>1, UserFacts, Same, HistoryType DEF Plain, Goto, SetEntry, Mine, Exists
<1>3. /\ pc'[u] = "unlink" /\ file'[u] = file[u] /\ entry'[u] = None
      /\ Excused \subseteq Excused' /\ made' = made
      /\ \A x : Stored(x)' <=> Stored(x)
  BY <1>2, PlainQuiet
<1>4. EntryHolds(u)'
  BY <1>3 DEF EntryHolds, Normal
<1>5. u \notin marked'
  BY <1>1, UserFacts DEF MarkHolds, Differs, SameText
<1>6. PlaceHolds(u)'
  <2>1. Mine(u) \subseteq Excused \union {x \in made : Stored(x)}
    BY <1>1, UnchangedStored DEF Mine
  <2>2. Mine(u)' = Mine(u)
    BY <1>3 DEF Mine, Exists
  <2>3. OverwritesStored(u)'
    BY <1>3, <2>1, <2>2 DEF OverwritesStored
  <2>4. CommandKnows(u)' /\ FileHasHead(u)' /\ HeadHasFile(u)'
    BY <1>3 DEF CommandKnows, FileHasHead, HeadHasFile
  <2>5. QED
    BY <2>3, <2>4 DEF PlaceHolds
<1>7. \A x \in Mine(u) : In(x, file[u])
  BY DEF Mine, Exists, In
<1>8. QED
  BY <1>2, <1>4, <1>5, <1>6, <1>7, Unmarked, PlainQuiet, QuietKeeps DEF Own

\* Save: the file is in a copy, and what was in the copy before is excused.
SaveIn(u) == [saved[u] EXCEPT ![entry[u].rev] = file[u]]

\* Save stores the file.
LEMMA SaveFacts ==
  ASSUME IndInv, NEW u \in User, Exists(u), entry[u] # None, Save(u)
  PROVE  /\ saved' = [saved EXCEPT ![u] = SaveIn(u)]
         /\ SaveIn(u) \in [0 .. MaxRev -> MayText]
         /\ \A r \in 0 .. MaxRev : SaveIn(u)[r] # None => SaveIn(u)[r] \subseteq made
         /\ \A r \in 0 .. MaxRev : saved[u][r] # None =>
              \A x \in saved[u][r] : In(x, SaveIn(u)[r]) \/ x \in replaced'
         /\ replaced \subseteq replaced' /\ replaced' \subseteq made
         /\ \A x \in Mine(u) : Stored(x)'
<1>1. /\ file[u] \in MayText /\ file[u] # None /\ Mine(u) = file[u] /\ file[u] \subseteq made
      /\ saved[u] \in [0 .. MaxRev -> MayText] /\ entry[u].rev \in 0 .. MaxRev
  BY UserFacts DEF Exists, Mine, MayEntry, Entry
<1>2. saved' = [saved EXCEPT ![u] = SaveIn(u)]
  BY DEF Save, SaveIn
<1>3. SaveIn(u) \in [0 .. MaxRev -> MayText]
  BY <1>1 DEF SaveIn
<1>4. \A r \in 0 .. MaxRev :
        SaveIn(u)[r] = IF r = entry[u].rev THEN file[u] ELSE saved[u][r]
  BY <1>1 DEF SaveIn
<1>5. \A r \in 0 .. MaxRev : saved[u][r] # None => saved[u][r] \subseteq made
  BY UserFacts
<1>6. \A r \in 0 .. MaxRev : SaveIn(u)[r] # None => SaveIn(u)[r] \subseteq made
  BY <1>1, <1>4, <1>5
<1>7. replaced \subseteq replaced' /\ replaced' \subseteq made
  BY <1>1, <1>5, HistoryType DEF Save
<1>8. ASSUME NEW r \in 0 .. MaxRev, saved[u][r] # None, NEW x \in saved[u][r]
      PROVE  In(x, SaveIn(u)[r]) \/ x \in replaced'
  <2>1. CASE r = entry[u].rev
    <3>1. replaced' = replaced \union (saved[u][r] \ file[u])
      BY <1>8, <2>1 DEF Save
    <3>2. SaveIn(u)[r] = file[u]
      BY <1>4, <2>1
    <3>3. QED
      BY <1>1, <1>8, <3>1, <3>2 DEF In
  <2>2. CASE r # entry[u].rev
    BY <1>4, <1>8, <2>2 DEF In
  <2>3. QED
    BY <2>1, <2>2
<1>9. ASSUME NEW x \in Mine(u)
      PROVE  Stored(x)'
  <2>1. saved'[u][entry[u].rev] = file[u]
    BY <1>1, <1>2, <1>4 DEF IndInv, TypeOK
  <2>2. QED
    BY <1>1, <1>9, <2>1 DEF Stored, In
<1>10. QED
  BY <1>2, <1>3, <1>6, <1>7, <1>8, <1>9

\* update -C saves a modified file before it is overwritten.
LEMMA UpdateTossKeeps ==
  ASSUME IndInv, NEW u \in User, Alone(u), Classify_File(u) \in {"MODIFIED", "NEEDS_MERGE"},
         Goto(u, "checkout"), Save(u), discarded' = discarded \union file[u],
         UNCHANGED <<binary, revs, file, entry, crashes, made, raced, marked, buried, remerged>>
  PROVE  IndInv'
<1>1. Live /\ Normal(u) /\ Exists(u)
  BY ClassifyFacts
<1>2. Mine(u) = file[u] /\ file[u] \subseteq made /\ entry[u] # None
  BY <1>1, UserFacts DEF Mine, Normal
<1>3. Quiet(u, file[u], entry[u], SaveIn(u), "checkout")
  <2>1. "checkout" \in Places
    BY DEF Places, Updating
  <2>2. discarded' \subseteq made /\ discarded \subseteq discarded'
    BY <1>2, HistoryType
  <2>3. /\ saved' = [saved EXCEPT ![u] = SaveIn(u)]
        /\ SaveIn(u) \in [0 .. MaxRev -> MayText]
        /\ \A r \in 0 .. MaxRev : SaveIn(u)[r] # None => SaveIn(u)[r] \subseteq made
        /\ \A r \in 0 .. MaxRev : saved[u][r] # None =>
             \A x \in saved[u][r] : In(x, SaveIn(u)[r]) \/ x \in replaced'
        /\ replaced \subseteq replaced' /\ replaced' \subseteq made
    BY <1>1, <1>2, SaveFacts
  <2>4. QED
    BY <1>2, <2>1, <2>2, <2>3, UserFacts, Same, HistoryType DEF Quiet, Goto
<1>4. /\ pc'[u] = "checkout" /\ file'[u] = file[u] /\ entry'[u] = entry[u]
      /\ HeadRev' = HeadRev /\ Live' = Live
  BY <1>3, QuietFrame DEF IndInv
<1>5. EntryHolds(u)'
  <2>1. Given \subseteq Given'
    BY DEF Given
  <2>2. QED
    BY <1>4, <2>1, UserFacts DEF EntryHolds, Normal, Base, Mine, Exists
<1>6. MarkHolds(u)'
  BY <1>4, UserFacts DEF MarkHolds, Normal, Exists
<1>7. PlaceHolds(u)'
  <2>1. Mine(u)' \subseteq Excused'
    BY <1>4 DEF Mine, Exists, Excused
  <2>2. OverwritesStored(u)'
    BY <2>1 DEF OverwritesStored
  <2>3. CommandKnows(u)' /\ FileHasHead(u)' /\ HeadHasFile(u)'
    BY <1>1, <1>4 DEF CommandKnows, FileHasHead, HeadHasFile
  <2>4. QED
    BY <2>2, <2>3 DEF PlaceHolds
<1>8. \A x \in Mine(u) : In(x, file[u])
  BY DEF Mine, Exists, In
<1>9. QED
  BY <1>3, <1>5, <1>6, <1>7, <1>8, QuietKeeps DEF Own

\* Update, whichever way it goes on.
LEMMA UpdateKeeps ==
  ASSUME IndInv, NEW u \in User, NEW toss \in BOOLEAN, Update(u, toss)
  PROVE  IndInv'
<1>1. /\ Alone(u) /\ (pc[u] = "idle" \/ pc[u] = "resurrect")
      /\ UNCHANGED <<binary, revs, file, crashes, made, raced, marked, buried, remerged>>
  BY UpdateCases
<1>2. CASE /\ Classify_File(u) \in {"PATCH", "CHECKOUT"}
           /\ Goto(u, "checkout") /\ SetEntry(u, Settled(u))
           /\ UNCHANGED <<saved, discarded, replaced>>
  BY <1>1, <1>2, UpdateCheckoutKeeps
<1>3. CASE /\ Classify_File(u) = "NEEDS_MERGE"
           /\ Goto(u, "merge") /\ UNCHANGED <<entry, saved, discarded, replaced>>
  BY <1>1, <1>3, UpdateMergeKeeps
<1>4. CASE /\ Classify_File(u) \in {"MODIFIED", "NEEDS_MERGE"}
           /\ Goto(u, "checkout") /\ Save(u)
           /\ discarded' = discarded \union file[u]
           /\ UNCHANGED entry
  BY <1>1, <1>4, UpdateTossKeeps
<1>5. CASE /\ Classify_File(u) = "MODIFIED"
           /\ Goto(u, "idle") /\ SetEntry(u, Resolved(u))
           /\ UNCHANGED <<saved, discarded, replaced>>
  BY <1>1, <1>5, UpdateResolvedKeeps
<1>6. CASE /\ Classify_File(u) = "REMOVE_ENTRY"
           /\ Goto(u, "unlink") /\ SetEntry(u, None)
           /\ UNCHANGED <<saved, discarded, replaced>>
  BY <1>1, <1>6, UpdateRemoveEntryKeeps
<1>7. CASE /\ Goto(u, "idle") /\ SetEntry(u, Settled(u))
           /\ UNCHANGED <<saved, discarded, replaced>>
  BY <1>1, <1>7, UpdateSettledKeeps
<1>8. QED
  BY <1>2, <1>3, <1>4, <1>5, <1>6, <1>7, UpdateCases

\* What an entry's revision had and the head has not was given up.
LEMMA BaseKept ==
  ASSUME IndInv, NEW u \in User, entry[u] # None, entry[u].rev > 0, Live
  PROVE  Base(u) \ HeadText \subseteq Given
<1>1. entry[u].rev \in 1 .. HeadRev /\ ~revs[entry[u].rev].dead
  BY UserFacts DEF MayEntry, Entry, EntryHolds
<1>2. HeadsKept
  BY DEF IndInv
<1>3. QED
  BY <1>1, <1>2 DEF HeadsKept, Base

\* CheckoutFile: the file becomes the head, and what was in it is stored.
LEMMA CheckoutFileKeeps ==
  ASSUME IndInv, NEW u \in User, CheckoutFile(u)
  PROVE  IndInv'
<1>1. /\ pc[u] = "checkout" /\ Alone(u) /\ Live /\ HeadRev > 0
      /\ Mine(u) \subseteq Excused \union {x \in made : Stored(x)}
  BY UserFacts DEF CheckoutFile, PlaceHolds, CommandKnows, OverwritesStored, Live
<1>2. HeadText \in MayText /\ HeadText \subseteq made /\ HeadText # None
  BY <1>1, UserFacts, NoneAssumption DEF MayText, Text
<1>3. Plain(u, HeadText, Restamp(u), "stamp")
  <2>1. "stamp" \in Places
    BY DEF Places, Updating
  <2>2. QED
    BY <1>1, <1>2, <2>1, RestampFacts, UserFacts, HistoryType
       DEF CheckoutFile, Plain, Goto, SetFile
<1>4. /\ pc'[u] = "stamp" /\ file'[u] = HeadText /\ entry'[u] = Restamp(u) /\ revs' = revs
      /\ HeadRev' = HeadRev /\ Live' = Live /\ HeadText' = HeadText
      /\ Given \subseteq Given' /\ Excused \subseteq Excused'
      /\ \A x : Stored(x)' <=> Stored(x)
  BY <1>3, PlainQuiet
<1>5. Mine(u)' = HeadText /\ Exists(u)'
  BY <1>2, <1>4 DEF Mine, Exists
<1>6. EntryHolds(u)'
  <2>1. entry[u] # None /\ entry[u].rev > 0 => Base(u) \ HeadText \subseteq Given
    BY <1>1, BaseKept
  <2>2. entry[u] # None => Base(u)' = Base(u)
    BY <1>4, RestampFacts DEF Base
  <2>3. QED
    BY <1>4, <1>5, <2>1, <2>2, UserFacts, RestampFacts DEF EntryHolds, Normal
<1>7. MarkHolds(u)'
  BY Unmarked DEF CheckoutFile
<1>8. PlaceHolds(u)'
  <2>1. CommandKnows(u)'
    BY <1>1, <1>4, <1>5 DEF CommandKnows
  <2>2. OverwritesStored(u)' /\ FileHasHead(u)' /\ HeadHasFile(u)'
    BY <1>4, <1>5 DEF OverwritesStored, FileHasHead, HeadHasFile
  <2>3. QED
    BY <2>1, <2>2 DEF PlaceHolds
<1>9. \A x \in Mine(u) : Stored(x)' \/ x \in Excused'
  BY <1>1, <1>4
<1>10. QED
  BY <1>3, <1>6, <1>7, <1>8, <1>9, PlainQuiet, QuietKeeps DEF Own

\* A file that has what the head has, and nothing else but by a race, is
\* registered with its time stamp.
LEMMA RegisterKeeps ==
  ASSUME IndInv, NEW u \in User, pc[u] \in {"stamp", "register"},
         SetEntry(u, EntryAt(HeadRev, TRUE, "no")), Goto(u, "idle"),
         UNCHANGED <<binary, revs, file, saved, crashes, history>>
  PROVE  IndInv'
<1>1. /\ Alone(u) /\ Live /\ HeadRev > 0 /\ Exists(u)
      /\ HeadText \subseteq file[u] /\ Mine(u) \ HeadText \subseteq raced
  BY UserFacts DEF PlaceHolds, CommandKnows, FileHasHead, HeadHasFile, Live
<1>2. HeadRev \in 0 .. MaxRev /\ HeadRev <= HeadRev
  BY UserFacts, BoundAssumption
<1>3. Plain(u, file[u], EntryAt(HeadRev, TRUE, "no"), "idle")
  <2>1. "idle" \in Places
    BY DEF Places
  <2>2. EntryAt(HeadRev, TRUE, "no") \in MayEntry /\ EntryAt(HeadRev, TRUE, "no").rev <= HeadRev
    BY <1>2, StampedAtFacts
  <2>3. QED
    BY <1>1, <2>1, <2>2, Same, UserFacts, HistoryType
       DEF Plain, Goto, SetEntry, history, Mine, Exists
<1>4. /\ pc'[u] = "idle" /\ file'[u] = file[u] /\ entry'[u] = EntryAt(HeadRev, TRUE, "no")
      /\ revs' = revs /\ Given \subseteq Given' /\ raced' = raced
  BY <1>3, PlainQuiet
<1>5. /\ entry'[u] # None /\ entry'[u].rev = HeadRev /\ entry'[u].gone = FALSE
  BY <1>2, <1>4, StampedAtFacts
<1>6. EntryHolds(u)'
  <2>1. Base(u)' = HeadText /\ ~revs'[HeadRev].dead
    BY <1>1, <1>4, <1>5 DEF Base, HeadText, Live
  <2>2. Mine(u) = file[u] /\ Mine(u)' = file[u]
    BY <1>1, <1>4 DEF Mine, Exists
  <2>3. QED
    BY <1>1, <1>4, <1>5, <2>1, <2>2 DEF EntryHolds
<1>7. u \notin marked'
  BY UserFacts DEF MarkHolds, history
<1>8. \A x \in Mine(u) : In(x, file[u])
  BY DEF Mine, Exists, In
<1>9. QED
  BY <1>3, <1>4, <1>6, <1>7, <1>8, Unmarked, IdlePlace, PlainQuiet, QuietKeeps DEF Own

\* diff3 takes out what one side took out of the base, and nothing else.
LEMMA MergeFacts ==
  ASSUME NEW base, NEW mine, NEW theirs
  PROVE  /\ Merge(base, mine, theirs) \subseteq mine \union theirs
         /\ base \ Merge(base, mine, theirs) \subseteq (base \ mine) \union (base \ theirs)
         /\ theirs \ Merge(base, mine, theirs) \subseteq base \ mine
BY DEF Merge

\* MergeFile: the file is in its copy; what diff3 takes out of it was given up by
\* this user or by those who made the head.
LEMMA MergeFileKeeps ==
  ASSUME IndInv, NEW u \in User, MergeFile(u)
  PROVE  IndInv'
<1>1. /\ pc[u] = "merge" /\ Alone(u) /\ Live /\ HeadRev > 0 /\ Exists(u)
      /\ Normal(u) /\ entry[u].rev < HeadRev
  BY UserFacts DEF MergeFile, PlaceHolds, CommandKnows, Live
<1>2. /\ HeadText \in Text /\ HeadText \subseteq made
      /\ file[u] \in Text /\ file[u] \subseteq made /\ Mine(u) = file[u]
      /\ entry[u] # None /\ entry[u].rev > 0
  BY <1>1, UserFacts DEF MayText, Exists, Mine, Normal
<1>3. Base(u) \ file[u] \subseteq Given /\ Base(u) \ HeadText \subseteq Given
  BY <1>1, <1>2, BaseKept, UserFacts DEF EntryHolds
<1>4. PICK f \in Text, p \in {"stamp", "merged", "conflicts"} :
        /\ file' = [file EXCEPT ![u] = f] /\ pc' = [pc EXCEPT ![u] = p]
        /\ f \subseteq made /\ HeadText \ f \subseteq Given /\ Base(u) \ f \subseteq Given
        /\ p = "stamp" => f = HeadText /\ marked' = marked \ {u}
        /\ p = "merged" => marked' = marked
        /\ p = "conflicts" => marked' = marked \union {u}
  <2>1. CASE binary
    BY <1>2, <1>3, <2>1 DEF MergeFile, SetFile, Goto
  <2>2. CASE ~binary
    <3> DEFINE f == Merge(Base(u), file[u], HeadText)
    <3>1. /\ f \subseteq made /\ HeadText \ f \subseteq Given /\ Base(u) \ f \subseteq Given
      BY <1>2, <1>3, MergeFacts
    <3>2. f \in Text
      BY <3>1, HistoryType DEF Text
    <3>3. file' = [file EXCEPT ![u] = f]
      BY <2>2 DEF MergeFile, SetFile
    <3>4. \/ pc' = [pc EXCEPT ![u] = "merged"] /\ marked' = marked
          \/ pc' = [pc EXCEPT ![u] = "conflicts"] /\ marked' = marked \union {u}
      BY <2>2 DEF MergeFile, Goto
    <3> HIDE DEF f
    <3>5. QED
      BY <3>1, <3>2, <3>3, <3>4
  <2>3. QED
    BY <2>1, <2>2
<1>5. f # None /\ f \in MayText /\ p \in Places
  BY NoneAssumption DEF Text, MayText, Places, Updating
<1>6. /\ Save(u) /\ entry' = [entry EXCEPT ![u] = Restamp(u)]
      /\ remerged' = IF u \in marked THEN remerged \union {u} ELSE remerged
      /\ UNCHANGED <<binary, revs, crashes, made, discarded, raced, buried>>
  BY DEF MergeFile
<1>7. Quiet(u, f, Restamp(u), SaveIn(u), p)
  <2>1. /\ saved' = [saved EXCEPT ![u] = SaveIn(u)]
        /\ SaveIn(u) \in [0 .. MaxRev -> MayText]
        /\ \A r \in 0 .. MaxRev : SaveIn(u)[r] # None => SaveIn(u)[r] \subseteq made
        /\ \A r \in 0 .. MaxRev : saved[u][r] # None =>
             \A x \in saved[u][r] : In(x, SaveIn(u)[r]) \/ x \in replaced'
        /\ replaced \subseteq replaced' /\ replaced' \subseteq made
    BY <1>1, <1>2, <1>6, SaveFacts
  <2>2. /\ marked' \ {u} = marked \ {u} /\ marked' \subseteq User
        /\ remerged' \ {u} = remerged \ {u} /\ remerged' \subseteq User
    BY <1>4, <1>6, HistoryType
  <2>3. Restamp(u) \in MayEntry /\ (Restamp(u) # None => Restamp(u).rev <= HeadRev)
    BY RestampFacts
  <2>4. QED
    BY <1>1, <1>4, <1>5, <1>6, <2>1, <2>2, <2>3, HistoryType DEF Quiet
<1>8. /\ pc'[u] = p /\ file'[u] = f /\ entry'[u] = Restamp(u)
      /\ HeadRev' = HeadRev /\ Live' = Live /\ HeadText' = HeadText
  BY <1>7, QuietFrame DEF IndInv
<1>9. Mine(u)' = f /\ Exists(u)' /\ Given' = Given
  BY <1>5, <1>6, <1>8 DEF Mine, Exists, Given
<1>10. /\ entry'[u] # None /\ entry'[u].rev = entry[u].rev /\ entry'[u].gone = FALSE
       /\ entry'[u].stamp = FALSE /\ Base(u)' = Base(u) /\ revs' = revs
  <2>1. entry[u].gone = FALSE
    BY <1>1, UserFacts DEF Normal, MayEntry, Entry
  <2>2. QED
    BY <1>2, <1>6, <1>8, <2>1, RestampFacts DEF Base
<1>11. Normal(u)'
  BY <1>2, <1>10 DEF Normal
<1>12. EntryHolds(u)'
  BY <1>2, <1>4, <1>9, <1>10, UserFacts DEF EntryHolds
<1>13. MarkHolds(u)'
  <2>1. entry'[u].rev < HeadRev'
    BY <1>1, <1>8, <1>10
  <2>2. u \in marked' /\ p = "merged" => u \in remerged'
    BY <1>4, <1>6
  <2>3. QED
    BY <1>4, <1>8, <1>9, <1>10, <1>11, <2>1, <2>2 DEF MarkHolds
<1>14. PlaceHolds(u)'
  <2>1. CommandKnows(u)'
    BY <1>1, <1>4, <1>8, <1>9, <1>10, <1>11 DEF CommandKnows
  <2>2. OverwritesStored(u)' /\ FileHasHead(u)' /\ HeadHasFile(u)'
    BY <1>4, <1>8, <1>9 DEF OverwritesStored, FileHasHead, HeadHasFile
  <2>3. QED
    BY <2>1, <2>2 DEF PlaceHolds
<1>15. \A x \in Mine(u) : Stored(x)'
  BY <1>1, <1>2, <1>6, SaveFacts
<1>16. QED
  BY <1>7, <1>12, <1>13, <1>14, <1>15, QuietKeeps DEF Own

\* MergeRegister: the merged file has what the head has.
LEMMA MergeRegisterKeeps ==
  ASSUME IndInv, NEW u \in User, MergeRegister(u)
  PROVE  IndInv'
<1>1. /\ pc[u] \in {"merged", "conflicts"} /\ Alone(u) /\ Live /\ HeadRev > 0 /\ Exists(u)
      /\ HeadText \ file[u] \subseteq Given
  BY UserFacts DEF MergeRegister, PlaceHolds, CommandKnows, FileHasHead, Live
<1>2. PICK c \in {"no", "same"} : c = IF pc[u] = "merged" THEN "no" ELSE "same"
  OBVIOUS
<1>3. HeadRev \in 0 .. MaxRev /\ HeadRev <= HeadRev
  BY UserFacts, BoundAssumption
<1>4. /\ EntryAt(HeadRev, FALSE, c) \in MayEntry /\ EntryAt(HeadRev, FALSE, c) # None
      /\ EntryAt(HeadRev, FALSE, c).rev = HeadRev /\ EntryAt(HeadRev, FALSE, c).gone = FALSE
      /\ EntryAt(HeadRev, FALSE, c).stamp = FALSE /\ EntryAt(HeadRev, FALSE, c).conflict = c
  <2>1. EntryAt(HeadRev, FALSE, c) \in Entry
    BY <1>3 DEF EntryAt, Entry
  <2>2. QED
    BY <2>1, EntryAssumption DEF EntryAt, MayEntry
<1>5. Plain(u, file[u], EntryAt(HeadRev, FALSE, c), "idle")
  <2>1. "idle" \in Places
    BY DEF Places
  <2>2. entry' = [entry EXCEPT ![u] = EntryAt(HeadRev, FALSE, c)]
    BY <1>2 DEF MergeRegister, SetEntry
  <2>3. QED
    BY <1>1, <1>3, <1>4, <2>1, <2>2, Same, UserFacts, HistoryType
       DEF MergeRegister, Plain, Goto, history, Mine, Exists
<1>6. /\ pc'[u] = "idle" /\ file'[u] = file[u] /\ entry'[u] = EntryAt(HeadRev, FALSE, c)
      /\ revs' = revs /\ Given \subseteq Given' /\ HeadRev' = HeadRev /\ remerged' = remerged
  BY <1>5, PlainQuiet
<1>7. Normal(u)' /\ Exists(u)'
  BY <1>1, <1>4, <1>6 DEF Normal, Exists
<1>8. EntryHolds(u)'
  <2>1. Base(u)' = HeadText /\ ~revs'[HeadRev].dead
    BY <1>1, <1>4, <1>6 DEF Base, HeadText, Live
  <2>2. Mine(u)' = file[u]
    BY <1>6, <1>7 DEF Mine
  <2>3. QED
    BY <1>1, <1>4, <1>6, <2>1, <2>2 DEF EntryHolds
<1>9. MarkHolds(u)'
  <2>1. marked' = marked
    BY DEF MergeRegister, history
  <2>2. u \in marked /\ u \notin remerged => pc[u] = "conflicts"
    BY <1>1, UserFacts DEF MarkHolds
  <2>3. u \in marked /\ u \notin remerged => c = "same"
    BY <1>2, <2>2
  <2>4. QED
    BY <1>4, <1>6, <1>7, <2>1, <2>3 DEF MarkHolds
<1>10. \A x \in Mine(u) : In(x, file[u])
  BY DEF Mine, Exists, In
<1>11. QED
  BY <1>5, <1>6, <1>8, <1>9, <1>10, IdlePlace, PlainQuiet, QuietKeeps DEF Own

\* UnlinkFile: what goes is stored.
LEMMA UnlinkFileKeeps ==
  ASSUME IndInv, NEW u \in User, UnlinkFile(u)
  PROVE  IndInv'
<1>1. /\ pc[u] = "unlink" /\ Alone(u) /\ entry[u] = None
      /\ Mine(u) \subseteq Excused \union {x \in made : Stored(x)}
  BY UserFacts DEF UnlinkFile, PlaceHolds, CommandKnows, OverwritesStored
<1>2. Plain(u, None, entry[u], "idle")
  <2>1. "idle" \in Places /\ None \in MayText
    BY DEF Places, MayText
  <2>2. QED
    BY <1>1, <2>1, Same, UserFacts, HistoryType DEF UnlinkFile, Plain, Goto, SetFile
<1>3. /\ pc'[u] = "idle" /\ entry'[u] = entry[u] /\ Excused \subseteq Excused'
      /\ \A x : Stored(x)' <=> Stored(x)
  BY <1>2, PlainQuiet
<1>4. EntryHolds(u)'
  BY <1>1, <1>3 DEF EntryHolds, Normal
<1>5. MarkHolds(u)'
  BY Unmarked DEF UnlinkFile
<1>6. \A x \in Mine(u) : Stored(x)' \/ x \in Excused'
  BY <1>1, <1>3
<1>7. QED
  BY <1>2, <1>3, <1>4, <1>5, <1>6, IdlePlace, PlainQuiet, QuietKeeps DEF Own

-----------------------------------------------------------------------------
(* commit *)

\* Commit: a file that is to be checked in was classified against the head, and
\* has conflicts only if its user has written it since.
LEMMA CommitKeeps ==
  ASSUME IndInv, NEW u \in User, NEW force \in BOOLEAN, Commit(u, force)
  PROVE  IndInv'
<1>1. /\ Alone(u) /\ pc[u] = "idle" /\ HeadRev < MaxRev /\ SetEntry(u, Settled(u))
      /\ UNCHANGED <<binary, revs, file, saved, crashes, made, discarded, raced, replaced,
                     buried, remerged>>
  BY UserFacts DEF Commit, AllIdle
<1>2. \/ /\ \/ Classify_File(u) = "ADDED"
            \/ /\ force /\ Exists(u)
               /\ Classify_File(u) \in {"MODIFIED", "UPTODATE"}
            \/ /\ ~force /\ Classify_File(u) = "MODIFIED" /\ entry[u].conflict # "same"
         /\ Goto(u, "checkin")
         /\ marked' = IF force THEN marked \ {u} ELSE marked
      \/ Classify_File(u) = "REMOVED" /\ Goto(u, "remove") /\ marked' = marked
      \/ pc' = pc /\ marked' = marked
  BY DEF Commit, ConflictStands
<1>3. ASSUME NEW p \in Places, Goto(u, p), marked' \in {marked, marked \ {u}}
      PROVE  /\ pc'[u] = p /\ file'[u] = file[u] /\ entry'[u] = Settled(u)
             /\ HeadRev' = HeadRev /\ Live' = Live /\ HeadText' = HeadText
             /\ Given \subseteq Given' /\ remerged' = remerged
             /\ PlaceHolds(u)' /\ MarkHolds(u)' => IndInv'
  <2>1. /\ Plain(u, file[u], Settled(u), p)
        /\ PlaceHolds(u)' /\ MarkHolds(u)' => IndInv'
    BY <1>1, <1>3, SettledStep
  <2>2. QED
    BY <2>1, PlainQuiet
<1>4. CASE /\ \/ Classify_File(u) = "ADDED"
              \/ /\ force /\ Exists(u)
                 /\ Classify_File(u) \in {"MODIFIED", "UPTODATE"}
              \/ /\ ~force /\ Classify_File(u) = "MODIFIED" /\ entry[u].conflict # "same"
           /\ Goto(u, "checkin")
           /\ marked' = IF force THEN marked \ {u} ELSE marked
  <2>1. /\ pc'[u] = "checkin" /\ file'[u] = file[u] /\ entry'[u] = Settled(u)
        /\ HeadRev' = HeadRev /\ Live' = Live /\ HeadText' = HeadText
        /\ Given \subseteq Given' /\ remerged' = remerged
        /\ PlaceHolds(u)' /\ MarkHolds(u)' => IndInv'
    <3>1. "checkin" \in Places /\ marked' \in {marked, marked \ {u}}
      BY <1>4 DEF Places, Committing
    <3>2. QED
      BY <1>3, <1>4, <3>1
  <2>2. Exists(u) /\ (Live => Normal(u) /\ entry[u].rev = HeadRev)
    BY <1>4, ClassifyFacts
  <2>3. Live => HeadText \ file[u] \subseteq Given
    <3>1. Live => HeadText = Base(u) /\ entry[u] # None /\ entry[u].rev > 0 /\ Mine(u) = file[u]
      BY <2>2 DEF Base, HeadText, Normal, Mine
    <3>2. QED
      BY <3>1, UserFacts DEF EntryHolds
  <2>4. PlaceHolds(u)'
    <3>1. CommandKnows(u)'
      BY <1>1, <2>1, <2>2 DEF CommandKnows, Exists
    <3>2. OverwritesStored(u)' /\ HeadHasFile(u)'
      BY <2>1 DEF OverwritesStored, HeadHasFile
    <3>3. FileHasHead(u)'
      BY <2>1, <2>3 DEF FileHasHead
    <3>4. QED
      BY <3>1, <3>2, <3>3 DEF PlaceHolds
  <2>5. MarkHolds(u)'
    <3>1. CASE force
      BY <1>4, <3>1, Unmarked
    <3>2. CASE Classify_File(u) = "ADDED"
      <4>1. ~Normal(u)
        BY <3>2, ClassifyFacts DEF Normal
      <4>2. u \notin marked'
        BY <1>4, <4>1, UserFacts DEF MarkHolds
      <4>3. QED
        BY <4>2, Unmarked
    <3>3. CASE ~force /\ Classify_File(u) = "MODIFIED" /\ entry[u].conflict # "same"
      <4>1. entry[u].rev = HeadRev /\ Normal(u) /\ entry[u].conflict \in {"no", "changed"}
        BY <3>3, ClassifyFacts, UserFacts DEF Normal, MayEntry, Entry
      <4>2. ~(entry[u].rev < HeadRev)
        BY <4>1, UserFacts
      <4>3. u \in marked => /\ Exists(u) /\ Normal(u) /\ ~entry[u].stamp
                            /\ Settled(u) = entry[u]
                            /\ u \notin remerged => entry[u].conflict = "changed"
        BY <4>1, <4>2, UserFacts, SettledFacts DEF MarkHolds
      <4>4. marked' = marked
        BY <1>4, <3>3
      <4>5. QED
        BY <2>1, <4>3, <4>4 DEF MarkHolds, Normal, Exists
    <3>4. QED
      BY <1>4, <3>1, <3>2, <3>3
  <2>6. QED
    BY <2>1, <2>4, <2>5
<1>5. CASE Classify_File(u) = "REMOVED" /\ Goto(u, "remove") /\ marked' = marked
  <2>1. /\ pc'[u] = "remove" /\ entry'[u] = Settled(u) /\ HeadRev' = HeadRev
        /\ PlaceHolds(u)' /\ MarkHolds(u)' => IndInv'
    <3>1. "remove" \in Places
      BY DEF Places, Committing
    <3>2. QED
      BY <1>3, <1>5, <3>1
  <2>2. entry[u] # None /\ entry[u].gone /\ Settled(u) = entry[u]
    BY <1>5, ClassifyFacts, SettledFacts
  <2>3. PlaceHolds(u)'
    BY <1>1, <2>1, <2>2
       DEF PlaceHolds, CommandKnows, OverwritesStored, FileHasHead, HeadHasFile
  <2>4. u \notin marked'
    BY <1>5, <2>2, UserFacts DEF MarkHolds, Normal
  <2>5. QED
    BY <2>1, <2>3, <2>4, Unmarked
<1>6. CASE pc' = pc /\ marked' = marked
  <2>1. Goto(u, "idle")
    BY <1>1, <1>6, Same DEF Goto
  <2>2. QED
    BY <1>1, <1>6, <2>1, UpdateSettledKeeps
<1>7. QED
  BY <1>2, <1>4, <1>5, <1>6

\* CheckinCompare: only a race is in the file and not in the revision just made,
\* whether it is checked out again or not.
LEMMA CheckinCompareKeeps ==
  ASSUME IndInv, NEW u \in User, CheckinCompare(u)
  PROVE  IndInv'
<1> DEFINE t == IF binary THEN file[u] ELSE HeadText
<1>1. /\ pc[u] = "compare" /\ Alone(u) /\ Live /\ HeadRev > 0 /\ Exists(u)
      /\ HeadText \subseteq file[u] /\ Mine(u) \ HeadText \subseteq raced
      /\ Normal(u) /\ entry[u].stamp =>
           Base(u) \subseteq HeadText /\ HeadText \ Base(u) \subseteq raced
  BY UserFacts DEF CheckinCompare, PlaceHolds, CommandKnows, FileHasHead, HeadHasFile, Live
<1>2. /\ t \in MayText /\ t \subseteq made /\ t # None
      /\ HeadText \subseteq t /\ t \ HeadText \subseteq raced /\ Mine(u) \ t \subseteq raced
  <2>1. HeadText \in MayText /\ HeadText \subseteq made /\ HeadText # None
    BY <1>1, UserFacts, NoneAssumption DEF MayText, Text
  <2>2. file[u] \in MayText /\ file[u] \subseteq made /\ file[u] # None /\ Mine(u) = file[u]
    BY <1>1, UserFacts DEF Mine, Exists
  <2>3. QED
    BY <1>1, <2>1, <2>2
<1>3. Plain(u, t, entry[u], "register")
  <2>1. "register" \in Places
    BY DEF Places, Committing
  <2>2. file' = [file EXCEPT ![u] = t]
    BY Same DEF CheckinCompare, SetFile
  <2> HIDE DEF t
  <2>3. QED
    BY <1>1, <1>2, <2>1, <2>2, Same, UserFacts, HistoryType
       DEF CheckinCompare, Plain, Goto, history
<1> HIDE DEF t
<1>4. /\ pc'[u] = "register" /\ file'[u] = t /\ entry'[u] = entry[u] /\ revs' = revs
      /\ HeadRev' = HeadRev /\ Live' = Live /\ HeadText' = HeadText
      /\ Given \subseteq Given' /\ raced' = raced /\ made' = made
      /\ Excused \subseteq Excused'
  BY <1>3, PlainQuiet
<1>5. Mine(u)' = t /\ Exists(u)' /\ Base(u)' = Base(u) /\ (Normal(u)' <=> Normal(u))
  BY <1>2, <1>4 DEF Mine, Exists, Base, Normal
<1>6. EntryHolds(u)'
  <2>1. entry[u] # None /\ entry[u].rev > 0 => Base(u) \ t \subseteq Given
    BY <1>1, <1>2, BaseKept
  <2>2. Normal(u) /\ entry[u].stamp => Base(u) \subseteq t /\ t \ Base(u) \subseteq raced
    BY <1>1, <1>2
  <2>3. QED
    BY <1>1, <1>4, <1>5, <2>1, <2>2, UserFacts DEF EntryHolds
<1>7. u \notin marked'
  BY <1>1, UserFacts DEF CheckinCompare, history, MarkHolds
<1>8. PlaceHolds(u)'
  <2>1. CommandKnows(u)'
    BY <1>1, <1>4, <1>5 DEF CommandKnows
  <2>2. OverwritesStored(u)' /\ FileHasHead(u)' /\ HeadHasFile(u)'
    BY <1>2, <1>4, <1>5 DEF OverwritesStored, FileHasHead, HeadHasFile
  <2>3. QED
    BY <2>1, <2>2 DEF PlaceHolds
<1>9. \A x \in Mine(u) : In(x, t) \/ x \in Excused'
  BY <1>1, <1>2, <1>4 DEF In, Excused
<1>10. QED
  BY <1>3, <1>6, <1>7, <1>8, <1>9, Unmarked, PlainQuiet, QuietKeeps DEF Own

\* RemoveCheckout: the head goes over the file, whose work counts as replaced; a
\* head that is not the entry's counts as buried.
LEMMA RemoveCheckoutKeeps ==
  ASSUME IndInv, NEW u \in User, RemoveCheckout(u)
  PROVE  IndInv'
<1>1. /\ pc[u] = "remove" /\ Alone(u) /\ HeadRev < MaxRev
      /\ entry[u] # None /\ entry[u].gone /\ entry[u].rev > 0
      /\ Base(u) \subseteq Given
  BY UserFacts DEF RemoveCheckout, PlaceHolds, CommandKnows, EntryHolds
<1>2. HeadRev > 0
  BY <1>1, UserFacts DEF MayEntry, Entry
<1>3. HeadText \in MayText /\ HeadText \subseteq made /\ HeadText # None
  BY <1>2, UserFacts, NoneAssumption DEF MayText, Text
<1>4. /\ replaced \subseteq replaced' /\ replaced' \subseteq made
      /\ Mine(u) \ HeadText \subseteq replaced'
      /\ buried \subseteq buried' /\ buried' \subseteq made
      /\ Live /\ entry[u].rev # HeadRev => HeadText \subseteq buried'
  BY <1>3, UserFacts, HistoryType DEF RemoveCheckout, Mine
<1>5. Plain(u, HeadText, Restamp(u), "bury")
  <2>1. "bury" \in Places
    BY DEF Places, Committing
  <2>2. QED
    BY <1>1, <1>3, <1>4, <2>1, RestampFacts, UserFacts, HistoryType
       DEF RemoveCheckout, Plain, Goto, SetFile, SetEntry
<1>6. /\ pc'[u] = "bury" /\ file'[u] = HeadText /\ entry'[u] = Restamp(u) /\ revs' = revs
      /\ HeadRev' = HeadRev /\ Live' = Live /\ HeadText' = HeadText
      /\ Given \subseteq Given' /\ Excused \subseteq Excused'
  BY <1>5, PlainQuiet
<1>7. /\ Mine(u)' = HeadText /\ Exists(u)' /\ Base(u)' = Base(u)
      /\ entry'[u] # None /\ entry'[u].gone /\ entry'[u].rev = entry[u].rev
      /\ entry'[u].stamp = FALSE
  BY <1>1, <1>3, <1>6, RestampFacts DEF Mine, Exists, Base
<1>8. EntryHolds(u)'
  BY <1>1, <1>6, <1>7, UserFacts DEF EntryHolds
<1>9. MarkHolds(u)'
  BY Unmarked DEF RemoveCheckout
<1>10. PlaceHolds(u)'
  <2>1. CommandKnows(u)'
    BY <1>1, <1>6, <1>7 DEF CommandKnows
  <2>2. OverwritesStored(u)' /\ HeadHasFile(u)'
    BY <1>6 DEF OverwritesStored, HeadHasFile
  <2>3. Live => HeadText \subseteq Given'
    <3>1. entry[u].rev = HeadRev => HeadText = Base(u)
      BY DEF HeadText, Base
    <3>2. QED
      BY <1>1, <1>4, <1>6, <3>1 DEF Given
  <2>4. FileHasHead(u)'
    BY <1>6, <2>3 DEF FileHasHead
  <2>5. QED
    BY <2>1, <2>2, <2>4 DEF PlaceHolds
<1>11. \A x \in Mine(u) : In(x, HeadText) \/ x \in Excused'
  BY <1>3, <1>4 DEF In, Excused
<1>12. QED
  BY <1>5, <1>8, <1>9, <1>10, <1>11, PlainQuiet, QuietKeeps DEF Own

\* RemoveUnlink: the file that goes is the revision just made.
LEMMA RemoveUnlinkKeeps ==
  ASSUME IndInv, NEW u \in User, RemoveUnlink(u)
  PROVE  IndInv'
<1>1. /\ pc[u] = "unlinkdead" /\ Alone(u)
      /\ entry[u] # None /\ entry[u].gone /\ entry[u].rev > 0
      /\ Base(u) \subseteq Given /\ Mine(u) \ HeadText \subseteq raced
  BY UserFacts DEF RemoveUnlink, PlaceHolds, CommandKnows, HeadHasFile, EntryHolds
<1>2. HeadRev > 0
  BY <1>1, UserFacts DEF MayEntry, Entry
<1>3. Plain(u, None, entry[u], "scratch")
  <2>1. "scratch" \in Places /\ None \in MayText
    BY DEF Places, Committing, MayText
  <2>2. QED
    BY <1>1, <2>1, Same, UserFacts, HistoryType DEF RemoveUnlink, Plain, Goto, SetFile, history
<1>4. /\ pc'[u] = "scratch" /\ file'[u] = None /\ entry'[u] = entry[u] /\ revs' = revs
      /\ Given \subseteq Given' /\ Excused \subseteq Excused' /\ raced' = raced
      /\ \A x : Stored(x)' <=> Stored(x)
  BY <1>3, PlainQuiet
<1>5. EntryHolds(u)'
  BY <1>1, <1>4, UserFacts DEF EntryHolds, Normal, Base
<1>6. u \notin marked'
  BY <1>1, UserFacts DEF RemoveUnlink, history, MarkHolds
<1>7. PlaceHolds(u)'
  BY <1>1, <1>4 DEF PlaceHolds, CommandKnows, OverwritesStored, FileHasHead, HeadHasFile
<1>8. \A x \in Mine(u) : Stored(x)' \/ x \in Excused'
  BY <1>1, <1>2, <1>4, HeadStored DEF Excused
<1>9. QED
  BY <1>3, <1>5, <1>6, <1>7, <1>8, Unmarked, PlainQuiet, QuietKeeps DEF Own

\* RemoveScratch: the entry goes, and with it all that was said of it.
LEMMA RemoveScratchKeeps ==
  ASSUME IndInv, NEW u \in User, RemoveScratch(u)
  PROVE  IndInv'
<1>1. pc[u] = "scratch" /\ Alone(u)
  BY UserFacts DEF RemoveScratch
<1>2. Plain(u, file[u], None, "idle")
  <2>1. "idle" \in Places /\ None \in MayEntry
    BY DEF Places, MayEntry
  <2>2. QED
    BY <1>1, <2>1, Same, UserFacts, HistoryType
       DEF RemoveScratch, Plain, Goto, SetEntry, history, Mine, Exists
<1>3. pc'[u] = "idle" /\ entry'[u] = None
  BY <1>2, PlainQuiet
<1>4. EntryHolds(u)'
  BY <1>3 DEF EntryHolds, Normal
<1>5. u \notin marked'
  BY <1>1, UserFacts DEF RemoveScratch, history, MarkHolds
<1>6. \A x \in Mine(u) : In(x, file[u])
  BY DEF Mine, Exists, In
<1>7. QED
  BY <1>2, <1>3, <1>4, <1>5, <1>6, Unmarked, IdlePlace, PlainQuiet, QuietKeeps DEF Own

-----------------------------------------------------------------------------
(* The two steps that make a revision *)

\* A new revision, with the file of u as its text: the head has become it, and
\* nothing else has changed but where the command of u is.
Grown(u, dead, p) ==
    /\ Alone(u) /\ Exists(u) /\ HeadRev < MaxRev /\ p \in Places
    /\ NewRevision(file[u], dead) /\ Goto(u, p)
    /\ marked' \in {marked, marked \ {u}}
    /\ UNCHANGED <<binary, file, entry, saved, crashes, made, discarded, raced, replaced, buried,
                   remerged>>

\* The trunk after it.
LEMMA GrownFacts ==
  ASSUME IndInv, NEW u \in User, NEW dead \in BOOLEAN, NEW p, Grown(u, dead, p)
  PROVE  /\ Frame(u)
         /\ HeadRev' = HeadRev + 1 /\ HeadText' = file[u] /\ Live' = ~dead
         /\ revs' \in Seq([text : Text, dead : BOOLEAN])
         /\ \A r \in 1 .. HeadRev : revs'[r] = revs[r]
         /\ revs'[HeadRev + 1] = [text |-> file[u], dead |-> dead]
         /\ pc'[u] = p
<1>1. revs \in Seq([text : Text, dead : BOOLEAN]) /\ HeadRev = Len(revs) /\ HeadRev \in Nat
  BY UserFacts DEF IndInv, TypeOK, HeadRev
<1>2. [text |-> file[u], dead |-> dead] \in [text : Text, dead : BOOLEAN]
  BY UserFacts DEF Grown, Exists, MayText
<1>3. revs' = Append(revs, [text |-> file[u], dead |-> dead])
  BY DEF Grown, NewRevision
<1>4. /\ revs' \in Seq([text : Text, dead : BOOLEAN])
      /\ Len(revs') = HeadRev + 1
      /\ \A r \in 1 .. HeadRev : revs'[r] = revs[r]
      /\ revs'[HeadRev + 1] = [text |-> file[u], dead |-> dead]
  BY <1>1, <1>2, <1>3, AppendProperties
<1>5. HeadRev' = HeadRev + 1
  BY <1>4 DEF HeadRev
<1>6. HeadText' = file[u]
  BY <1>4, <1>5 DEF HeadText
<1>7. Live' = ~dead
  BY <1>1, <1>4, <1>5 DEF Live
<1>8. pc'[u] = p /\ \A v \in User \ {u} : pc'[v] = pc[v]
  BY DEF Grown, Goto, IndInv, TypeOK
<1>9. Frame(u)
  <2>1. \A v \in User \ {u} : pc[v] = "idle" /\ pc'[v] = "idle"
    BY <1>8 DEF Grown, Alone
  <2>2. HeadRev <= HeadRev'
    BY <1>1, <1>5
  <2>3. QED
    BY <1>4, <2>1, <2>2 DEF Frame, Grown
<1>10. QED
  BY <1>4, <1>5, <1>6, <1>7, <1>8, <1>9

\* A revision keeps the invariant when what the heads before it had is in it or
\* was given up.
LEMMA GrownKeeps ==
  ASSUME IndInv, NEW u \in User, NEW dead \in BOOLEAN, NEW p, Grown(u, dead, p),
         Live => HeadText \ (IF dead THEN {} ELSE file[u]) \subseteq Given,
         Own(u)'
  PROVE  IndInv'
<1>1. TypeOK /\ OneBusy /\ TextsMade /\ HeadsKept /\ NoWorkLost
  BY DEF IndInv
<1>2. /\ Frame(u)
      /\ HeadRev' = HeadRev + 1 /\ HeadText' = file[u] /\ Live' = ~dead
      /\ revs' \in Seq([text : Text, dead : BOOLEAN])
      /\ \A r \in 1 .. HeadRev : revs'[r] = revs[r]
      /\ revs'[HeadRev + 1] = [text |-> file[u], dead |-> dead]
      /\ pc'[u] = p
  BY GrownFacts
<1>3. HeadRev \in Nat /\ \A r \in 1 .. HeadRev' : r \in 1 .. HeadRev \/ r = HeadRev + 1
  BY <1>2, UserFacts
<1>4. TypeOK'
  <2>1. HeadRev' <= MaxRev
    BY <1>2, <1>3, BoundAssumption DEF Grown
  <2>2. \A v \in User : entry'[v] # None => entry'[v].rev <= HeadRev'
    <3>1. TAKE v \in User
    <3>2. entry[v] # None => entry[v].rev \in Nat /\ entry[v].rev <= HeadRev
      BY <1>1 DEF TypeOK, Entry
    <3>3. entry' = entry
      BY DEF Grown
    <3>4. QED
      BY <1>2, <1>3, <3>2, <3>3
  <2>3. pc' \in [User -> {"idle"} \union Updating \union Committing]
    BY <1>1 DEF TypeOK, Grown, Goto, Places
  <2>4. marked' \subseteq User
    BY <1>1 DEF TypeOK, Grown
  <2>5. UNCHANGED <<binary, file, entry, saved, crashes, made, discarded, raced, replaced, buried,
                    remerged>>
    BY DEF Grown
  <2>6. QED
    BY <1>1, <1>2, <2>1, <2>2, <2>3, <2>4, <2>5 DEF TypeOK
<1>5. OneBusy'
  BY <1>2 DEF OneBusy, Alone, Frame
<1>6. TextsMade'
  <2>1. file[u] \subseteq made
    BY <1>1 DEF TextsMade, Grown, Exists
  <2>2. \A r \in 1 .. HeadRev' : revs'[r].text \subseteq made
    BY <1>1, <1>2, <1>3, <2>1 DEF TextsMade
  <2>3. file' = file /\ saved' = saved /\ made' = made
    BY DEF Grown
  <2>4. QED
    BY <1>1, <2>2, <2>3 DEF TextsMade
<1>7. HeadsKept'
  <2>1. Given' = Given
    BY DEF Grown, Given
  <2>2. SUFFICES ASSUME NEW r \in 1 .. HeadRev', ~revs'[r].dead
                 PROVE  revs'[r].text \ (IF dead THEN {} ELSE file[u]) \subseteq Given
    BY <1>2, <2>1 DEF HeadsKept
  <2>3. CASE r = HeadRev + 1
    BY <1>2, <2>2, <2>3
  <2>4. CASE r \in 1 .. HeadRev
    <3>1. revs[r].text \ (IF Live THEN HeadText ELSE {}) \subseteq Given
      BY <1>1, <1>2, <2>2, <2>4 DEF HeadsKept
    <3>2. revs'[r].text = revs[r].text
      BY <1>2, <2>4
    <3>3. QED
      BY <3>1, <3>2
  <2>5. QED
    BY <1>3, <2>3, <2>4
<1>8. NoWorkLost'
  <2>1. \A x \in Edits : Stored(x) => Stored(x)'
    <3>1. \A r \in 1 .. HeadRev : r \in 1 .. HeadRev' /\ revs'[r] = revs[r]
      BY <1>2, <1>3
    <3>2. saved' = saved
      BY DEF Grown
    <3>3. QED
      BY <3>1, <3>2 DEF Stored, In
  <2>2. file' = file /\ made' = made
    BY DEF Grown
  <2>3. \A x \in Mine(u) : In(x, file'[u])
    BY <2>2 DEF Mine, Exists, In
  <2>4. made' \subseteq Edits
    BY <2>2, HistoryType
  <2>5. QED
    BY <1>1, <1>2, <2>1, <2>2, <2>3, <2>4, WorkKept
<1>9. \A v \in User : Own(v)'
  BY <1>2, <1>4, OthersKeep
<1>10. QED
  BY <1>4, <1>5, <1>6, <1>7, <1>8, <1>9 DEF IndInv, Own

\* What the entry of u says still stands after the revision.
LEMMA GrownEntry ==
  ASSUME IndInv, NEW u \in User, NEW dead \in BOOLEAN, NEW p, Grown(u, dead, p)
  PROVE  /\ EntryHolds(u)' /\ Exists(u)' /\ Mine(u)' = file[u] /\ Given' = Given
         /\ entry'[u] = entry[u] /\ raced' = raced
         /\ Normal(u) => Normal(u)' /\ Base(u)' = Base(u)
<1>1. /\ file' = file /\ entry' = entry /\ Given' = Given /\ raced' = raced
      /\ Exists(u)
  BY DEF Grown, Given
<1>2. Exists(u)' /\ Mine(u)' = file[u] /\ Mine(u) = file[u] /\ (Normal(u)' <=> Normal(u))
  BY <1>1 DEF Exists, Mine, Normal
<1>3. entry[u] # None /\ entry[u].rev > 0 => revs'[entry[u].rev] = revs[entry[u].rev]
  <2>1. entry[u] # None /\ entry[u].rev > 0 => entry[u].rev \in 1 .. HeadRev
    BY UserFacts DEF MayEntry, Entry
  <2>2. QED
    BY <2>1, GrownFacts
<1>4. entry[u] # None /\ entry[u].rev > 0 => Base(u)' = Base(u)
  BY <1>1, <1>3 DEF Base
<1>5. EntryHolds(u)'
  BY <1>1, <1>2, <1>3, <1>4, UserFacts DEF EntryHolds, Normal
<1>6. QED
  BY <1>1, <1>2, <1>4, <1>5 DEF Normal

\* Checkin: the file has what the head has, or it was given up.
LEMMA CheckinKeeps ==
  ASSUME IndInv, NEW u \in User, Checkin(u)
  PROVE  IndInv'
<1>1. /\ pc[u] = "checkin" /\ Alone(u) /\ Exists(u) /\ HeadRev < MaxRev
      /\ Live => HeadText \ file[u] \subseteq Given
  BY UserFacts DEF Checkin, PlaceHolds, CommandKnows, FileHasHead
<1>2. Grown(u, FALSE, "compare")
  BY <1>1 DEF Grown, Checkin, Places, Committing
<1>3. /\ HeadText' = file[u] /\ Live' /\ pc'[u] = "compare"
  BY <1>2, GrownFacts
<1>4. /\ EntryHolds(u)' /\ Exists(u)' /\ Mine(u)' = file[u]
      /\ entry'[u] = entry[u] /\ raced' = raced
      /\ Normal(u) => Base(u)' = Base(u)
  BY <1>2, GrownEntry
<1>5. PlaceHolds(u)'
  <2>1. CommandKnows(u)'
    BY <1>3, <1>4 DEF CommandKnows
  <2>2. OverwritesStored(u)' /\ FileHasHead(u)'
    <3>1. file'[u] = file[u]
      BY <1>2 DEF Grown
    <3>2. QED
      BY <1>3, <3>1 DEF OverwritesStored, FileHasHead
  <2>3. Normal(u) /\ entry[u].stamp => Base(u) \subseteq file[u] /\ file[u] \ Base(u) \subseteq raced
    BY <1>1, UserFacts DEF EntryHolds
  <2>4. Normal(u)' <=> Normal(u)
    BY <1>4 DEF Normal
  <2>5. HeadHasFile(u)'
    BY <1>3, <1>4, <2>3, <2>4 DEF HeadHasFile
  <2>6. QED
    BY <2>1, <2>2, <2>5 DEF PlaceHolds
<1>6. MarkHolds(u)'
  BY Unmarked DEF Checkin
<1>7. QED
  BY <1>1, <1>2, <1>4, <1>5, <1>6, GrownKeeps DEF Own

\* RemoveCheckin: what the head had was given up, by the one who removed it or
\* because nobody looked.
LEMMA RemoveCheckinKeeps ==
  ASSUME IndInv, NEW u \in User, RemoveCheckin(u)
  PROVE  IndInv'
<1>1. /\ pc[u] = "bury" /\ Alone(u) /\ Exists(u) /\ HeadRev < MaxRev
      /\ entry[u] # None /\ entry[u].gone
      /\ Live => HeadText \subseteq Given
  BY UserFacts DEF RemoveCheckin, PlaceHolds, CommandKnows, FileHasHead
<1>2. Grown(u, TRUE, "unlinkdead")
  BY <1>1 DEF Grown, RemoveCheckin, Places, Committing, history
<1>3. HeadText' = file[u] /\ pc'[u] = "unlinkdead"
  BY <1>2, GrownFacts
<1>4. EntryHolds(u)' /\ Mine(u)' = file[u] /\ entry'[u] = entry[u]
  BY <1>2, GrownEntry
<1>5. PlaceHolds(u)'
  BY <1>1, <1>3, <1>4
     DEF PlaceHolds, CommandKnows, OverwritesStored, FileHasHead, HeadHasFile
<1>6. u \notin marked'
  BY <1>1, UserFacts DEF RemoveCheckin, history, MarkHolds
<1>7. QED
  BY <1>1, <1>2, <1>4, <1>5, <1>6, Unmarked, GrownKeeps DEF Own

-----------------------------------------------------------------------------
(* add and remove *)

\* Add: an added file has no revision yet, and one that is taken back has the
\* entry that it had, but does not claim to be the revision.
LEMMA AddKeeps ==
  ASSUME IndInv, NEW u \in User, NEW force \in BOOLEAN, Add(u, force)
  PROVE  IndInv'
<1>1. /\ Alone(u) /\ pc[u] = "idle"
      /\ UNCHANGED <<binary, revs, file, saved, crashes, history>>
  BY UserFacts DEF Add, AllIdle
<1>2. u \notin marked' <=> u \notin marked
  BY <1>1 DEF history
<1>3. \A x \in Mine(u) : In(x, file[u])
  BY DEF Mine, Exists, In
<1>4. ASSUME NEW e \in MayEntry, NEW p \in Places, SetEntry(u, e), Goto(u, p),
             e # None => e.rev <= HeadRev
      PROVE  /\ Quiet(u, file[u], e, saved[u], p)
             /\ pc'[u] = p /\ file'[u] = file[u] /\ entry'[u] = e /\ revs' = revs
             /\ HeadRev' = HeadRev /\ Live' = Live /\ Given \subseteq Given'
  <2>1. Plain(u, file[u], e, p)
    BY <1>1, <1>4, Same, UserFacts, HistoryType
       DEF Plain, Goto, SetEntry, history, Mine, Exists
  <2>2. QED
    BY <2>1, PlainQuiet
<1>5. "idle" \in Places /\ "revive" \in Places /\ "resurrect" \in Places
  BY DEF Places, Updating
<1>6. pc' = pc => Goto(u, "idle")
  BY <1>1, Same DEF Goto
<1>7. CASE /\ entry[u] = None /\ SetEntry(u, EntryAt(0, HeadRev > 0, "no"))
           /\ UNCHANGED pc
  <2>1. PICK e : e = EntryAt(0, HeadRev > 0, "no")
    OBVIOUS
  <2>2. e \in MayEntry /\ e # None /\ e.rev = 0 /\ e.gone = FALSE
    <3>1. e \in Entry /\ e.rev = 0 /\ e.gone = FALSE
      BY <2>1, BoundAssumption DEF EntryAt, Entry
    <3>2. QED
      BY <3>1, EntryAssumption DEF MayEntry
  <2>3. SetEntry(u, e) /\ e.rev <= HeadRev
    BY <1>7, <2>1, <2>2, UserFacts
  <2>4. /\ Quiet(u, file[u], e, saved[u], "idle")
        /\ pc'[u] = "idle" /\ entry'[u] = e
    BY <1>4, <1>5, <1>6, <1>7, <2>2, <2>3
  <2>5. EntryHolds(u)'
    BY <2>2, <2>4 DEF EntryHolds, Normal
  <2>6. u \notin marked'
    BY <1>2, <1>7, UserFacts DEF MarkHolds, Normal
  <2>7. QED
    BY <1>3, <2>4, <2>5, <2>6, Unmarked, IdlePlace, QuietKeeps DEF Own
<1>8. CASE /\ entry[u] = None /\ ~Live /\ HeadRev > 0 /\ ~Exists(u)
           /\ Goto(u, "revive") /\ UNCHANGED entry
  <2>1. SetEntry(u, entry[u]) /\ entry[u] \in MayEntry
    BY <1>8, Same DEF SetEntry, MayEntry
  <2>2. /\ Quiet(u, file[u], entry[u], saved[u], "revive")
        /\ pc'[u] = "revive" /\ file'[u] = file[u] /\ entry'[u] = None
        /\ HeadRev' = HeadRev /\ Live' = Live
    BY <1>4, <1>5, <1>8, <2>1
  <2>3. EntryHolds(u)'
    BY <2>2 DEF EntryHolds, Normal
  <2>4. u \notin marked'
    BY <1>2, <1>8, UserFacts DEF MarkHolds
  <2>5. Mine(u)' = {}
    BY <1>8, <2>2 DEF Mine, Exists
  <2>6. CommandKnows(u)'
    BY <1>8, <2>2 DEF CommandKnows
  <2>7. OverwritesStored(u)' /\ FileHasHead(u)' /\ HeadHasFile(u)'
    BY <2>2, <2>5 DEF OverwritesStored, FileHasHead, HeadHasFile
  <2>8. QED
    BY <1>3, <2>2, <2>3, <2>4, <2>6, <2>7, Unmarked, QuietKeeps DEF Own, PlaceHolds
<1>9. CASE /\ entry[u] # None /\ entry[u].gone
           /\ SetEntry(u, EntryAt(entry[u].rev, FALSE, entry[u].conflict))
           /\ IF Exists(u) THEN force /\ UNCHANGED pc ELSE Goto(u, "resurrect")
  <2>1. /\ entry[u].rev \in 0 .. MaxRev /\ entry[u].rev <= HeadRev /\ entry[u].rev > 0
        /\ entry[u].conflict \in {"no", "same", "changed"}
    BY <1>9, UserFacts DEF MayEntry, Entry, EntryHolds
  <2>2. PICK e : e = EntryAt(entry[u].rev, FALSE, entry[u].conflict)
    OBVIOUS
  <2>3. /\ e \in MayEntry /\ e # None /\ e.rev = entry[u].rev /\ e.gone = FALSE
        /\ e.stamp = FALSE
    <3>1. e \in Entry /\ e.rev = entry[u].rev /\ e.gone = FALSE /\ e.stamp = FALSE
      BY <2>1, <2>2 DEF EntryAt, Entry
    <3>2. QED
      BY <3>1, EntryAssumption DEF MayEntry
  <2>4. SetEntry(u, e) /\ e.rev <= HeadRev
    BY <1>9, <2>1, <2>2, <2>3
  <2>5. PICK p \in {"idle", "resurrect"} : Goto(u, p)
    BY <1>6, <1>9
  <2>6. /\ Quiet(u, file[u], e, saved[u], p)
        /\ pc'[u] = p /\ file'[u] = file[u] /\ entry'[u] = e /\ revs' = revs
        /\ Given \subseteq Given'
    BY <1>4, <1>5, <2>3, <2>4, <2>5
  <2>7. EntryHolds(u)'
    <3>1. Base(u)' = Base(u) /\ Mine(u)' = Mine(u)
      BY <2>3, <2>6 DEF Base, Mine, Exists
    <3>2. QED
      BY <2>1, <2>3, <2>6, <3>1, <1>9, UserFacts DEF EntryHolds
  <2>8. Normal(u)'
    BY <2>1, <2>3, <2>6 DEF Normal
  <2>9. u \notin marked'
    BY <1>2, <1>9, UserFacts DEF MarkHolds, Normal
  <2>10. PlaceHolds(u)'
    BY <2>6, <2>8 DEF PlaceHolds, CommandKnows, OverwritesStored, FileHasHead, HeadHasFile
  <2>11. QED
    BY <1>3, <2>6, <2>7, <2>9, <2>10, Unmarked, QuietKeeps DEF Own
<1>10. QED
  BY <1>7, <1>8, <1>9 DEF Add

\* ReviveFile: there was no file, unless a race has made one.
LEMMA ReviveFileKeeps ==
  ASSUME IndInv, NEW u \in User, ReviveFile(u)
  PROVE  IndInv'
<1>1. /\ pc[u] = "revive" /\ Alone(u) /\ ~Live /\ HeadRev > 0 /\ entry[u] = None
      /\ Mine(u) \subseteq Excused \union {x \in made : Stored(x)}
  BY UserFacts DEF ReviveFile, PlaceHolds, CommandKnows, OverwritesStored
<1>2. HeadText \in MayText /\ HeadText \subseteq made /\ HeadText # None
  BY <1>1, UserFacts, NoneAssumption DEF MayText, Text
<1>3. Plain(u, HeadText, entry[u], "revived")
  <2>1. "revived" \in Places
    BY DEF Places, Updating
  <2>2. QED
    BY <1>1, <1>2, <2>1, Same, UserFacts, HistoryType
       DEF ReviveFile, Plain, Goto, SetFile, history
<1>4. /\ pc'[u] = "revived" /\ file'[u] = HeadText /\ entry'[u] = None
      /\ HeadRev' = HeadRev /\ Live' = Live /\ Excused \subseteq Excused'
      /\ \A x : Stored(x)' <=> Stored(x)
  BY <1>1, <1>3, PlainQuiet
<1>5. EntryHolds(u)'
  BY <1>4 DEF EntryHolds, Normal
<1>6. u \notin marked'
  BY <1>1, UserFacts DEF ReviveFile, history, MarkHolds
<1>7. PlaceHolds(u)'
  BY <1>1, <1>2, <1>4
     DEF PlaceHolds, CommandKnows, OverwritesStored, FileHasHead, HeadHasFile, Exists
<1>8. \A x \in Mine(u) : Stored(x)' \/ x \in Excused'
  BY <1>1, <1>4
<1>9. QED
  BY <1>3, <1>5, <1>6, <1>7, <1>8, Unmarked, PlainQuiet, QuietKeeps DEF Own

\* ReviveRegister: the file is added, with no revision to stand for.
LEMMA ReviveRegisterKeeps ==
  ASSUME IndInv, NEW u \in User, ReviveRegister(u)
  PROVE  IndInv'
<1>1. pc[u] = "revived" /\ Alone(u)
  BY UserFacts DEF ReviveRegister
<1>2. PICK e : e = EntryAt(0, TRUE, "no")
  OBVIOUS
<1>3. e \in MayEntry /\ e # None /\ e.rev = 0 /\ e.gone = FALSE
  <2>1. e \in Entry /\ e.rev = 0 /\ e.gone = FALSE
    BY <1>2, BoundAssumption DEF EntryAt, Entry
  <2>2. QED
    BY <2>1, EntryAssumption DEF MayEntry
<1>4. Plain(u, file[u], e, "idle")
  <2>1. "idle" \in Places /\ e.rev <= HeadRev
    BY <1>3, UserFacts DEF Places
  <2>2. QED
    BY <1>3, <1>1, <1>2, <2>1, Same, UserFacts, HistoryType
       DEF ReviveRegister, Plain, Goto, SetEntry, history, Mine, Exists
<1>5. pc'[u] = "idle" /\ entry'[u] = e
  BY <1>4, PlainQuiet
<1>6. EntryHolds(u)'
  BY <1>3, <1>5 DEF EntryHolds, Normal
<1>7. u \notin marked'
  BY <1>1, UserFacts DEF ReviveRegister, history, MarkHolds
<1>8. \A x \in Mine(u) : In(x, file[u])
  BY DEF Mine, Exists, In
<1>9. QED
  BY <1>4, <1>5, <1>6, <1>7, <1>8, Unmarked, IdlePlace, PlainQuiet, QuietKeeps DEF Own

\* What remove makes of an entry when the file is gone, or is not.
RemovedEntry(u, gone) ==
    IF entry[u] = None THEN None
    ELSE IF entry[u].rev = 0 THEN None
    ELSE [entry[u] EXCEPT !.gone = @ \/ gone]

\* Remove: an entry gets its minus sign only with its file gone, so that what its
\* revision had was given up.
LEMMA RemoveStep ==
  ASSUME IndInv, NEW u \in User, AllIdle, NEW f, NEW gone \in BOOLEAN,
         file' = [file EXCEPT ![u] = f],
         entry' = [entry EXCEPT ![u] = RemovedEntry(u, gone)],
         \/ /\ Exists(u) /\ f = None /\ gone
            /\ discarded' = discarded \union Mine(u) /\ marked' = marked \ {u}
         \/ /\ f = file[u] /\ (gone <=> ~Exists(u))
            /\ discarded' = discarded /\ marked' = marked,
         UNCHANGED <<binary, revs, saved, pc, crashes, made, raced, replaced, buried, remerged>>
  PROVE  IndInv'
<1>1. Alone(u) /\ pc[u] = "idle"
  BY UserFacts DEF AllIdle
<1>2. /\ file' = [file EXCEPT ![u] = f]
      /\ \/ /\ Exists(u) /\ f = None /\ gone
            /\ discarded' = discarded \union Mine(u) /\ marked' = marked \ {u}
         \/ /\ f = file[u] /\ (gone <=> ~Exists(u))
            /\ discarded' = discarded /\ marked' = marked
  OBVIOUS
<1>3. PICK e : e = RemovedEntry(u, gone)
  OBVIOUS
<1>4. /\ e \in MayEntry
      /\ e # None => /\ entry[u] # None /\ e.rev = entry[u].rev /\ entry[u].rev > 0
                     /\ e.gone = (entry[u].gone \/ gone)
                     /\ e.stamp = entry[u].stamp /\ e.conflict = entry[u].conflict
      /\ Normal(u) /\ ~gone => e = entry[u]
  <2>1. CASE entry[u] = None \/ entry[u].rev = 0
    BY <1>3, <2>1 DEF RemovedEntry, MayEntry, Normal
  <2>2. CASE entry[u] # None /\ entry[u].rev # 0
    <3>1. entry[u] \in Entry /\ entry[u].rev > 0
      BY <2>2, UserFacts DEF MayEntry, Entry
    <3>2. e = [entry[u] EXCEPT !.gone = @ \/ gone]
      BY <1>3, <2>2 DEF RemovedEntry
    <3>3. /\ e \in Entry /\ e.rev = entry[u].rev /\ e.gone = (entry[u].gone \/ gone)
          /\ e.stamp = entry[u].stamp /\ e.conflict = entry[u].conflict
      BY <3>1, <3>2 DEF Entry
    <3>4. Normal(u) /\ ~gone => e = entry[u]
      BY <3>1, <3>2 DEF Entry, Normal
    <3>5. QED
      BY <2>2, <3>1, <3>3, <3>4 DEF MayEntry
  <2>3. QED
    BY <2>1, <2>2
<1>5. Plain(u, f, e, "idle")
  <2>1. "idle" \in Places /\ f \in MayText /\ (f # None => f \subseteq made)
    BY <1>2, UserFacts DEF Places, MayText, Mine, Exists
  <2>2. e # None => e.rev <= HeadRev
    BY <1>4, UserFacts
  <2>3. discarded \subseteq discarded' /\ discarded' \subseteq made
    BY <1>2, UserFacts, HistoryType
  <2>4. entry' = [entry EXCEPT ![u] = e]
    BY <1>2, <1>3
  <2>5. QED
    BY <1>1, <1>2, <1>4, <2>1, <2>2, <2>3, <2>4, Same, HistoryType DEF Plain
<1>6. /\ pc'[u] = "idle" /\ file'[u] = f /\ entry'[u] = e /\ revs' = revs
      /\ Given \subseteq Given' /\ raced' = raced /\ HeadRev' = HeadRev /\ remerged' = remerged
  BY <1>5, PlainQuiet
<1>7. EntryHolds(u)'
  <2>1. e # None => Base(u)' = Base(u) /\ Base(u) \ Mine(u) \subseteq Given
    BY <1>4, <1>6, UserFacts DEF Base, EntryHolds
  <2>2. Mine(u) \ Mine(u)' \subseteq Given' /\ (gone => Mine(u) \subseteq Given' /\ ~Exists(u)')
    BY <1>2, <1>6 DEF Mine, Exists, Given
  <2>3. e # None /\ entry[u].gone => Base(u) \subseteq Given
    BY <1>4, UserFacts DEF EntryHolds
  <2>4. e # None => /\ ~revs[e.rev].dead /\ Base(u)' \ Mine(u)' \subseteq Given'
                    /\ e.gone => Base(u)' \subseteq Given'
    BY <1>4, <1>6, <2>1, <2>2, <2>3, UserFacts DEF EntryHolds
  <2>5. e # None /\ ~e.gone /\ e.stamp /\ Exists(u)' =>
          Base(u)' \subseteq file'[u] /\ file'[u] \ Base(u)' \subseteq raced'
    <3>1. SUFFICES ASSUME e # None, ~e.gone, e.stamp, Exists(u)'
                   PROVE  /\ Base(u) \subseteq file[u] /\ file[u] \ Base(u) \subseteq raced
                          /\ f = file[u]
      BY <1>6, <2>1
    <3>2. ~gone /\ f = file[u] /\ Exists(u) /\ Normal(u) /\ entry[u].stamp
      BY <1>2, <1>4, <1>6, <2>2, <3>1 DEF Normal, Exists
    <3>3. QED
      BY <3>2, UserFacts DEF EntryHolds
  <2>6. QED
    BY <1>4, <1>6, <2>4, <2>5 DEF EntryHolds, Normal
<1>8. MarkHolds(u)'
  <2>1. CASE f = None
    <3>1. u \notin marked'
      BY <1>2, <2>1, UserFacts DEF MarkHolds, Exists
    <3>2. QED
      BY <3>1, Unmarked
  <2>2. CASE f = file[u] /\ f # None /\ marked' = marked /\ ~gone
    <3>1. u \in marked => Normal(u) /\ e = entry[u]
      BY <1>4, <2>2, UserFacts DEF MarkHolds
    <3>2. QED
      BY <1>1, <1>6, <2>2, <3>1, UserFacts DEF MarkHolds, Normal, Exists
  <2>3. QED
    BY <1>2, <2>1, <2>2 DEF Exists
<1>9. \A x \in Mine(u) : In(x, f) \/ x \in Excused'
  BY <1>2 DEF Mine, Exists, In, Excused
<1>10. QED
  BY <1>5, <1>6, <1>7, <1>8, <1>9, IdlePlace, PlainQuiet, QuietKeeps DEF Own

\* Remove, with the file and without it.
LEMMA RemoveKeeps ==
  ASSUME IndInv, NEW u \in User, NEW force \in BOOLEAN, Remove(u, force)
  PROVE  IndInv'
<1>1. /\ AllIdle
      /\ entry' = [entry EXCEPT ![u] = RemovedEntry(u, ~(Exists(u) /\ ~force))]
      /\ UNCHANGED <<binary, revs, saved, pc, crashes, made, raced, replaced, buried, remerged>>
  BY DEF Remove, SetEntry, RemovedEntry
<1>2. CASE force /\ Exists(u)
  <2>1. entry' = [entry EXCEPT ![u] = RemovedEntry(u, TRUE)]
    BY <1>1, <1>2
  <2>2. /\ file' = [file EXCEPT ![u] = None]
        /\ discarded' = discarded \union Mine(u) /\ marked' = marked \ {u}
    BY <1>2 DEF Remove, SetFile, Mine
  <2>3. TRUE \in BOOLEAN
    OBVIOUS
  <2>4. QED
    BY <1>1, <1>2, <2>1, <2>2, <2>3, RemoveStep
<1>3. CASE ~(force /\ Exists(u))
  <2>1. /\ file' = [file EXCEPT ![u] = file[u]]
        /\ discarded' = discarded /\ marked' = marked
    BY <1>3, Same DEF Remove
  <2>2. PICK gone \in BOOLEAN : gone = ~(Exists(u) /\ ~force)
    OBVIOUS
  <2>3. (gone <=> ~Exists(u)) /\ entry' = [entry EXCEPT ![u] = RemovedEntry(u, gone)]
    BY <1>1, <1>3, <2>2
  <2>4. QED
    BY <1>1, <2>1, <2>3, RemoveStep
<1>4. QED
  BY <1>2, <1>3

-----------------------------------------------------------------------------
(* The theorems *)

\* Before the first command nobody has anything.
LEMMA InitHolds == Init => IndInv
<1> SUFFICES ASSUME Init PROVE IndInv
  OBVIOUS
<1>1. HeadRev \in {0, 1} /\ \A r \in 1 .. HeadRev : revs[r] = [text |-> {}, dead |-> FALSE]
  <2>1. CASE revs = << >>
    BY <2>1 DEF HeadRev
  <2>2. CASE revs = <<[text |-> {}, dead |-> FALSE]>>
    <3>1. Len(revs) = 1 /\ revs[1] = [text |-> {}, dead |-> FALSE]
      BY <2>2
    <3>2. \A r \in 1 .. 1 : r = 1
      OBVIOUS
    <3>3. QED
      BY <3>1, <3>2 DEF HeadRev
  <2>3. QED
    BY <2>1, <2>2 DEF Init
<1>2. TypeOK
  <2>1. revs \in Seq([text : Text, dead : BOOLEAN])
    <3>1. [text |-> {}, dead |-> FALSE] \in [text : Text, dead : BOOLEAN]
      BY DEF Text
    <3>2. << >> \in Seq([text : Text, dead : BOOLEAN])
      OBVIOUS
    <3>3. <<[text |-> {}, dead |-> FALSE]>> \in Seq([text : Text, dead : BOOLEAN])
      BY <3>1
    <3>4. QED
      BY <3>2, <3>3 DEF Init
  <2>2. QED
    BY <1>1, <2>1, BoundAssumption DEF Init, TypeOK, Text
<1>3. OneBusy /\ NoWorkLost
  BY DEF Init, OneBusy, NoWorkLost
<1>4. TextsMade
  BY <1>1 DEF Init, TextsMade
<1>5. HeadsKept
  BY <1>1 DEF HeadsKept
<1>6. \A u \in User : EntryHolds(u) /\ PlaceHolds(u) /\ MarkHolds(u)
  BY DEF Init, EntryHolds, Normal, MarkHolds,
         PlaceHolds, CommandKnows, OverwritesStored, FileHasHead, HeadHasFile
<1>7. QED
  BY <1>2, <1>3, <1>4, <1>5, <1>6 DEF IndInv

\* One case for each action.
LEMMA NextKeeps == IndInv /\ [Next]_vars => IndInv'
<1> SUFFICES ASSUME IndInv, [Next]_vars PROVE IndInv'
  OBVIOUS
<1>1. CASE UNCHANGED vars
  <2>1. TypeOK' /\ OneBusy' /\ TextsMade' /\ HeadsKept'
    BY <1>1 DEF vars, IndInv, TypeOK, OneBusy, Alone, TextsMade, HeadsKept, HeadRev, HeadText,
                Live, Given
  <2>2. NoWorkLost'
    BY <1>1 DEF vars, IndInv, NoWorkLost, In, HeadRev
  <2>3. ASSUME NEW u \in User PROVE EntryHolds(u)' /\ MarkHolds(u)'
    BY <1>1 DEF vars, IndInv, EntryHolds, Normal, Base, Mine, Exists, Given, MarkHolds, HeadRev
  <2>4. ASSUME NEW u \in User PROVE CommandKnows(u)' /\ FileHasHead(u)' /\ HeadHasFile(u)'
    BY <1>1 DEF vars, IndInv, PlaceHolds, CommandKnows, FileHasHead, HeadHasFile, HeadRev,
                HeadText, Live, Normal, Base, Mine, Exists, Given
  <2>5. ASSUME NEW u \in User PROVE OverwritesStored(u)'
    <3>1. \A x : Stored(x)' <=> Stored(x)
      BY <1>1, StoredSame DEF vars
    <3>2. Mine(u)' = Mine(u) /\ Excused' = Excused /\ OverwritesStored(u)
      BY <1>1 DEF vars, Mine, Exists, Excused, IndInv, PlaceHolds
    <3>3. QED
      BY <1>1, <3>1, <3>2 DEF vars, OverwritesStored
  <2>6. QED
    BY <2>1, <2>2, <2>3, <2>4, <2>5 DEF IndInv, PlaceHolds
<1>2. ASSUME NEW u \in User, EditFile(u) \/ TouchFile(u) \/ DeleteFile(u) \/ Crash(u)
      PROVE  IndInv'
  BY <1>2, EditFileKeeps, TouchFileKeeps, DeleteFileKeeps, CrashKeeps
<1>3. ASSUME NEW u \in User, NEW toss \in BOOLEAN, Update(u, toss)
      PROVE  IndInv'
  BY <1>3, UpdateKeeps
<1>4. ASSUME NEW u \in User,
             CheckoutFile(u) \/ MergeFile(u) \/ MergeRegister(u) \/ UnlinkFile(u)
      PROVE  IndInv'
  BY <1>4, CheckoutFileKeeps, MergeFileKeeps, MergeRegisterKeeps, UnlinkFileKeeps
<1>5. ASSUME NEW u \in User, CheckoutRegister(u) \/ CheckinRegister(u)
      PROVE  IndInv'
  BY <1>5, RegisterKeeps DEF CheckoutRegister, CheckinRegister
<1>6. ASSUME NEW u \in User, NEW force \in BOOLEAN,
             Commit(u, force) \/ Add(u, force) \/ Remove(u, force)
      PROVE  IndInv'
  BY <1>6, CommitKeeps, AddKeeps, RemoveKeeps
<1>7. ASSUME NEW u \in User, Checkin(u) \/ CheckinCompare(u)
      PROVE  IndInv'
  BY <1>7, CheckinKeeps, CheckinCompareKeeps
<1>8. ASSUME NEW u \in User,
             RemoveCheckout(u) \/ RemoveCheckin(u) \/ RemoveUnlink(u) \/ RemoveScratch(u)
      PROVE  IndInv'
  BY <1>8, RemoveCheckoutKeeps, RemoveCheckinKeeps, RemoveUnlinkKeeps, RemoveScratchKeeps
<1>9. ASSUME NEW u \in User, ReviveFile(u) \/ ReviveRegister(u)
      PROVE  IndInv'
  BY <1>9, ReviveFileKeeps, ReviveRegisterKeeps
<1>10. QED
  BY <1>1, <1>2, <1>3, <1>4, <1>5, <1>6, <1>7, <1>8, <1>9 DEF Next

\* The invariant that the others follow from.
THEOREM Invariance == Spec => []IndInv
<1>1. QED
  BY InitHolds, NextKeeps, PTL DEF Spec

\* Every part of the state has its type; an entry names a revision that there is.
THEOREM TypeCorrect == Spec => []TypeOK
<1>1. IndInv => TypeOK
  BY DEF IndInv
<1>2. QED
  BY <1>1, Invariance, PTL

\* No edit disappears, whatever users and commands do and wherever a command is
\* cut off: update.cpp, commit.cpp, add.cpp and remove.cpp overwrite a file only
\* with its text in a copy or a revision, but for the flaws that NoWorkLost names.
THEOREM WorkIsKept == Spec => []NoWorkLost
<1>1. IndInv => NoWorkLost
  BY DEF IndInv
<1>2. QED
  BY <1>1, Invariance, PTL

\* Classify_File never takes a file for up to date that lacks something of the head,
\* nor one with something else in it but what its user put there while a command of
\* hers ran.
THEOREM UpToDateIsTrue == Spec => []UpToDateIsEqual
<1>1. IndInv => UpToDateIsEqual
  <2> SUFFICES ASSUME IndInv, NEW u \in User, Normal(u), Classify_File(u) = "UPTODATE"
               PROVE  HeadText \subseteq file[u] /\ file[u] \ HeadText \subseteq raced
    BY DEF UpToDateIsEqual
  <2>1. Live /\ Exists(u) /\ ~Differs(u) /\ entry[u].rev = HeadRev
    BY ClassifyFacts DEF Normal
  <2>2. Base(u) = HeadText
    BY <2>1 DEF Base, HeadText
  <2>3. QED
    BY <2>1, <2>2, UserFacts DEF Differs, SameText, EntryHolds
<1>2. QED
  BY <1>1, Invariance, PTL

\* A file with conflict markers is known by its entry, and check_fileproc lets it
\* be committed only after its user has written it.
THEOREM ConflictsSeen == Spec => []ConflictsAreSeen
<1>1. IndInv => ConflictsAreSeen
  <2> SUFFICES ASSUME IndInv, NEW u \in marked \ remerged
               PROVE  /\ pc[u] = "idle" /\ Classify_File(u) = "MODIFIED" =>
                           entry[u].conflict # "no"
                      /\ pc[u] = "checkin" => entry[u].conflict = "changed"
    BY DEF ConflictsAreSeen
  <2>1. u \in User
    BY HistoryType
  <2>2. Classify_File(u) = "MODIFIED" => entry[u].rev = HeadRev /\ ~(entry[u].rev < HeadRev)
    BY <2>1, ClassifyFacts, UserFacts
  <2>3. QED
    BY <2>1, <2>2, UserFacts DEF MarkHolds
<1>2. QED
  BY <1>1, Invariance, PTL

\* What is in a head and not in the next was removed by its user, or was in a head
\* that was removed unseen: Checkin is let through only for a file with all of the
\* rest.
THEOREM HeadsKeepWork == Spec => HeadKeeps
<1>1. ASSUME IndInv, [Next]_vars, Live, Live'
      PROVE  HeadText \ HeadText' \subseteq discarded \union buried
  <2>1. CASE revs' = revs
    BY <2>1 DEF HeadText, HeadRev
  <2>2. ASSUME NEW u \in User, Checkin(u)
        PROVE  HeadText \ HeadText' \subseteq discarded \union buried
    <3>1. /\ pc[u] = "checkin" /\ Alone(u) /\ Exists(u) /\ HeadRev < MaxRev
          /\ HeadText \ file[u] \subseteq Given
      BY <1>1, <2>2, UserFacts DEF Checkin, PlaceHolds, CommandKnows, FileHasHead
    <3>2. Grown(u, FALSE, "compare")
      BY <2>2, <3>1 DEF Grown, Checkin, Places, Committing
    <3>3. HeadText' = file[u]
      BY <1>1, <3>2, GrownFacts
    <3>4. QED
      BY <3>1, <3>3 DEF Given
  <2>3. ASSUME NEW u \in User, RemoveCheckin(u)
        PROVE  FALSE
    <3>1. pc[u] = "bury" /\ Alone(u) /\ Exists(u) /\ HeadRev < MaxRev
      BY <1>1, <2>3, UserFacts DEF RemoveCheckin, PlaceHolds, CommandKnows
    <3>2. Grown(u, TRUE, "unlinkdead")
      BY <2>3, <3>1 DEF Grown, RemoveCheckin, Places, Committing, history
    <3>3. ~Live'
      BY <1>1, <3>2, GrownFacts
    <3>4. QED
      BY <1>1, <3>3
  <2>4. revs' = revs \/ \E u \in User : Checkin(u) \/ RemoveCheckin(u)
    <3>1. CASE UNCHANGED vars
      BY <3>1 DEF vars
    <3>2. ASSUME NEW u \in User, EditFile(u) \/ TouchFile(u) \/ DeleteFile(u) \/ Crash(u)
          PROVE  revs' = revs
      BY <3>2 DEF EditFile, TouchFile, DeleteFile, Crash
    <3>3. ASSUME NEW u \in User, NEW toss \in BOOLEAN, Update(u, toss)
          PROVE  revs' = revs
      BY <1>1, <3>3, UpdateCases
    <3>4. ASSUME NEW u \in User,
                 CheckoutFile(u) \/ CheckoutRegister(u) \/ MergeFile(u) \/ MergeRegister(u)
                   \/ UnlinkFile(u)
          PROVE  revs' = revs
      BY <3>4 DEF CheckoutFile, CheckoutRegister, MergeFile, MergeRegister, UnlinkFile
    <3>5. ASSUME NEW u \in User, NEW force \in BOOLEAN,
                 Commit(u, force) \/ Add(u, force) \/ Remove(u, force)
          PROVE  revs' = revs
      BY <3>5 DEF Commit, Add, Remove
    <3>6. ASSUME NEW u \in User,
                 CheckinCompare(u) \/ CheckinRegister(u) \/ RemoveCheckout(u) \/ RemoveUnlink(u)
                   \/ RemoveScratch(u) \/ ReviveFile(u) \/ ReviveRegister(u)
          PROVE  revs' = revs
      BY <3>6 DEF CheckinCompare, CheckinRegister, RemoveCheckout, RemoveUnlink, RemoveScratch,
                  ReviveFile, ReviveRegister
    <3>7. QED
      BY <1>1, <3>1, <3>2, <3>3, <3>4, <3>5, <3>6 DEF Next
  <2>5. QED
    BY <2>1, <2>2, <2>3, <2>4
<1>2. IndInv /\ [Next]_vars =>
        [Live /\ Live' => HeadText \ HeadText' \subseteq discarded \union buried]_vars
  BY <1>1
<1>3. QED
  BY <1>2, Invariance, PTL DEF Spec, HeadKeeps

\* The ends of an update, as Classify_File sees them.
LEMMA AtHeadSettled ==
  ASSUME NEW u \in User, Normal(u)', Live', Exists(u)', entry'[u].rev = HeadRev'
  PROVE  Classify_File(u)' \in {"MODIFIED", "UPTODATE"}
<1>1. entry'[u] # None /\ entry'[u].rev > 0 /\ ~entry'[u].gone
  BY DEF Normal
<1>2. entry'[u].rev # 0
  BY <1>1
<1>3. Classify_File(u)' =
        IF ~Live' THEN IF Exists(u)' /\ Differs(u)' THEN "CONFLICT" ELSE "REMOVE_ENTRY"
        ELSE IF ~Exists(u)' THEN "CHECKOUT"
        ELSE IF entry'[u].rev = HeadRev'
          THEN IF Differs(u)' THEN "MODIFIED" ELSE "UPTODATE"
          ELSE IF Differs(u)' THEN "NEEDS_MERGE" ELSE "PATCH"
  BY <1>1, <1>2 DEF Classify_File, Normal
<1>4. QED
  BY <1>3

\* One update is enough: what Classify_File says after checkout_file, merge_file,
\* scratch_file and the checkout of add asks for nothing more.
THEOREM UpdateIsEnough == Spec => UpdateSettles
<1>1. ASSUME IndInv, Next, NEW u \in User, pc[u] \in Updating, pc'[u] = "idle",
             crashes' = crashes, ~(pc[u] = "unlink" /\ Live)
      PROVE  Classify_File(u)' \notin {"PATCH", "CHECKOUT", "NEEDS_MERGE", "REMOVE_ENTRY"}
  <2>1. pc[u] # "idle" /\ ~AllIdle /\ Alone(u)
    BY <1>1, UserFacts DEF Updating, AllIdle
  <2>2. \A v \in User : pc[v] # "idle" => v = u
    BY <2>1 DEF Alone
  <2>3. pc' # pc
    BY <1>1, <2>1
  <2>4. \/ \E toss \in BOOLEAN : Update(u, toss)
        \/ CheckoutFile(u) \/ CheckoutRegister(u) \/ MergeFile(u) \/ MergeRegister(u)
        \/ UnlinkFile(u) \/ ReviveFile(u) \/ ReviveRegister(u)
    <3>1. PICK v \in User :
            \/ \E toss \in BOOLEAN : Update(v, toss)
            \/ CheckoutFile(v) \/ CheckoutRegister(v) \/ MergeFile(v) \/ MergeRegister(v)
            \/ UnlinkFile(v) \/ ReviveFile(v) \/ ReviveRegister(v)
      <4>1. ASSUME NEW v \in User, EditFile(v) \/ TouchFile(v) \/ DeleteFile(v)
            PROVE  FALSE
        BY <2>1, <2>3, <4>1 DEF EditFile, TouchFile, DeleteFile
      <4>2. ASSUME NEW v \in User, NEW force \in BOOLEAN,
                   Commit(v, force) \/ Add(v, force) \/ Remove(v, force)
            PROVE  FALSE
        BY <2>1, <4>2 DEF Commit, Add, Remove
      <4>3. ASSUME NEW v \in User,
                   Checkin(v) \/ CheckinCompare(v) \/ CheckinRegister(v) \/ RemoveCheckout(v)
                     \/ RemoveCheckin(v) \/ RemoveUnlink(v) \/ RemoveScratch(v)
            PROVE  FALSE
        <5>1. pc[v] \in Committing
          BY <4>3 DEF Checkin, CheckinCompare, CheckinRegister, RemoveCheckout, RemoveCheckin,
                      RemoveUnlink, RemoveScratch, Committing
        <5>2. v = u
          BY <2>2, <5>1 DEF Committing
        <5>3. QED
          BY <1>1, <5>1, <5>2 DEF Committing, Updating
      <4>4. ASSUME NEW v \in User, Crash(v)
            PROVE  FALSE
        BY <1>1, <4>4, HistoryType DEF Crash
      <4>5. QED
        BY <1>1, <4>1, <4>2, <4>3, <4>4 DEF Next
    <3>2. pc[v] # "idle"
      BY <2>1, <3>1 DEF Update, CheckoutFile, CheckoutRegister, MergeFile, MergeRegister,
                        UnlinkFile, ReviveFile, ReviveRegister
    <3>3. QED
      BY <2>2, <3>1, <3>2
  <2>5. pc \in [User -> Places] /\ HeadRev \in Nat /\ HeadRev \in 0 .. MaxRev
    BY <1>1, UserFacts, BoundAssumption DEF IndInv, TypeOK, Places
  <2>6. CASE CheckoutFile(u) \/ MergeFile(u) \/ ReviveFile(u)
    BY <1>1, <2>5, <2>6 DEF CheckoutFile, MergeFile, ReviveFile, Goto
  <2>7. CASE CheckoutRegister(u)
    <3>1. pc[u] = "stamp" /\ Live /\ HeadRev > 0 /\ Exists(u)
      BY <1>1, <2>7, UserFacts DEF CheckoutRegister, PlaceHolds, CommandKnows, Live
    <3>2. entry'[u] = EntryAt(HeadRev, TRUE, "no") /\ revs' = revs /\ file' = file
      BY <1>1, <2>7 DEF CheckoutRegister, SetEntry, IndInv, TypeOK
    <3>3. entry'[u] # None /\ entry'[u].rev = HeadRev /\ entry'[u].gone = FALSE
      BY <2>5, <3>2, StampedAtFacts
    <3>4. Live' /\ Exists(u)' /\ HeadRev' = HeadRev /\ Normal(u)'
      BY <3>1, <3>2, <3>3 DEF Live, Exists, HeadRev, Normal
    <3>5. QED
      BY <3>3, <3>4, AtHeadSettled
  <2>8. CASE MergeRegister(u)
    <3>1. /\ pc[u] \in {"merged", "conflicts"} /\ Live /\ HeadRev > 0 /\ Exists(u)
      BY <1>1, <2>8, UserFacts DEF MergeRegister, PlaceHolds, CommandKnows, Live
    <3>2. PICK c \in {"no", "same"} : c = IF pc[u] = "merged" THEN "no" ELSE "same"
      OBVIOUS
    <3>3. entry'[u] = EntryAt(HeadRev, FALSE, c) /\ revs' = revs /\ file' = file
      BY <1>1, <2>8, <3>2 DEF MergeRegister, SetEntry, IndInv, TypeOK
    <3>4. entry'[u] # None /\ entry'[u].rev = HeadRev /\ entry'[u].gone = FALSE
      <4>1. entry'[u] \in Entry /\ entry'[u].rev = HeadRev /\ entry'[u].gone = FALSE
        BY <2>5, <3>3 DEF EntryAt, Entry
      <4>2. QED
        BY <4>1, EntryAssumption
    <3>5. Live' /\ Exists(u)' /\ HeadRev' = HeadRev /\ Normal(u)'
      BY <3>1, <3>3, <3>4 DEF Live, Exists, HeadRev, Normal
    <3>6. QED
      BY <3>4, <3>5, AtHeadSettled
  <2>9. CASE UnlinkFile(u)
    <3>1. entry[u] = None /\ ~Live
      BY <1>1, <2>9, UserFacts DEF UnlinkFile, PlaceHolds, CommandKnows
    <3>2. entry'[u] = None /\ revs' = revs /\ file'[u] = None
      BY <1>1, <2>9, <3>1 DEF UnlinkFile, SetFile, IndInv, TypeOK
    <3>3. ~Live' /\ ~Exists(u)'
      BY <3>1, <3>2 DEF Live, HeadRev, Exists
    <3>4. QED
      BY <3>2, <3>3 DEF Classify_File, Normal
  <2>10. CASE ReviveRegister(u)
    <3>1. ~Live /\ Exists(u)
      BY <1>1, <2>10, UserFacts DEF ReviveRegister, PlaceHolds, CommandKnows
    <3>2. entry'[u] = EntryAt(0, TRUE, "no") /\ revs' = revs /\ file' = file
      BY <1>1, <2>10 DEF ReviveRegister, SetEntry, IndInv, TypeOK
    <3>3. ~Live' /\ Exists(u)'
      BY <3>1, <3>2 DEF Live, HeadRev, Exists
    <3>4. entry'[u] # None /\ entry'[u].rev = 0 /\ entry'[u].gone = FALSE
      <4>1. 0 \in 0 .. MaxRev
        BY BoundAssumption
      <4>2. entry'[u] \in Entry /\ entry'[u].rev = 0 /\ entry'[u].gone = FALSE
        BY <3>2, <4>1 DEF EntryAt, Entry
      <4>3. QED
        BY <4>2, EntryAssumption
    <3>5. Classify_File(u)' = "ADDED"
      BY <3>3, <3>4 DEF Classify_File, Normal
    <3>6. QED
      BY <3>5
  <2>11. ASSUME NEW toss \in BOOLEAN, Update(u, toss)
         PROVE  Classify_File(u)' \notin {"PATCH", "CHECKOUT", "NEEDS_MERGE", "REMOVE_ENTRY"}
    <3>1. Normal(u)
      BY <1>1, <2>1, <2>11, UpdateCases, UserFacts DEF PlaceHolds, CommandKnows
    <3>2. revs' = revs /\ file' = file /\ marked' = marked
      BY <1>1, <2>11, UpdateCases
    <3>3. /\ HeadRev' = HeadRev /\ Live' = Live /\ (Exists(u)' <=> Exists(u))
      BY <3>2 DEF HeadRev, Live, Exists
    <3>4. \/ /\ Classify_File(u) = "MODIFIED" /\ entry'[u] = Resolved(u)
          \/ /\ Classify_File(u) \in {"UPTODATE", "CONFLICT"} /\ entry'[u] = Settled(u)
      <4>1. ASSUME NEW p \in Places, p # "idle" PROVE ~Goto(u, p)
        BY <1>1, <2>5, <4>1 DEF Goto
      <4>2. ~Goto(u, "checkout") /\ ~Goto(u, "merge") /\ ~Goto(u, "unlink")
        BY <4>1 DEF Places, Updating
      <4>3. \A e : SetEntry(u, e) => entry'[u] = e
        BY <1>1 DEF SetEntry, IndInv, TypeOK
      <4>4. Classify_File(u) \notin {"UNKNOWN", "ADDED", "REMOVED"}
        BY <1>1, <3>1, ClassifyFacts DEF Normal
      <4>5. QED
        BY <1>1, <2>11, <4>2, <4>3, <4>4, UpdateCases
    <3>5. /\ entry[u] \in Entry /\ entry[u] # None /\ entry[u].rev \in 0 .. MaxRev
          /\ entry[u].rev > 0 /\ entry[u].gone = FALSE
      BY <1>1, <3>1, UserFacts DEF Normal, MayEntry, Entry
    <3>6. CASE Classify_File(u) = "MODIFIED" /\ entry'[u] = Resolved(u)
      <4>1. Live /\ Exists(u) /\ entry[u].rev = HeadRev
        BY <1>1, <3>6, ClassifyFacts
      <4>2. entry'[u] \in Entry /\ entry'[u].rev = entry[u].rev /\ entry'[u].gone = FALSE
        BY <3>5, <3>6 DEF Resolved, Entry
      <4>3. Normal(u)'
        BY <3>5, <4>2, EntryAssumption DEF Normal
      <4>4. QED
        BY <3>3, <4>1, <4>2, <4>3, AtHeadSettled
    <3>7. CASE Classify_File(u) = "UPTODATE" /\ entry'[u] = Settled(u)
      <4>1. Live /\ Exists(u) /\ entry[u].rev = HeadRev
        BY <1>1, <3>5, <3>7, ClassifyFacts
      <4>2. Settled(u) = entry[u] \/ Settled(u) = EntryAt(entry[u].rev, TRUE, "no")
        BY <1>1, <3>5, SettledFacts
      <4>3. entry'[u] \in Entry /\ entry'[u].rev = entry[u].rev /\ entry'[u].gone = FALSE
        <5>1. CASE Settled(u) = entry[u]
          BY <3>5, <3>7, <5>1
        <5>2. CASE Settled(u) = EntryAt(entry[u].rev, TRUE, "no")
          BY <3>5, <3>7, <5>2 DEF EntryAt, Entry
        <5>3. QED
          BY <4>2, <5>1, <5>2
      <4>4. Normal(u)'
        BY <3>5, <4>3, EntryAssumption DEF Normal
      <4>5. QED
        BY <3>3, <4>1, <4>3, <4>4, AtHeadSettled
    <3>8. CASE Classify_File(u) = "CONFLICT" /\ entry'[u] = Settled(u)
      <4>1. ~Live /\ Exists(u) /\ Differs(u)
        BY <1>1, <3>1, <3>8, ClassifyFacts
      <4>2. entry'[u] = entry[u]
        BY <3>1, <3>8, <4>1 DEF Settled, Normal
      <4>3. Normal(u)' /\ Differs(u)'
        BY <3>1, <3>2, <4>1, <4>2 DEF Normal, Differs, SameText, Base
      <4>4. Classify_File(u)' = "CONFLICT"
        <5>1. entry'[u] # None /\ ~entry'[u].gone /\ entry'[u].rev # 0
          BY <3>5, <4>2
        <5>2. QED
          BY <3>3, <4>1, <4>3, <5>1 DEF Classify_File
      <4>5. QED
        BY <4>4
    <3>9. QED
      BY <3>4, <3>6, <3>7, <3>8
  <2>12. QED
    BY <2>4, <2>6, <2>7, <2>8, <2>9, <2>10, <2>11
<1>2. IndInv /\ [Next]_vars =>
        [\A u \in User :
           pc[u] \in Updating /\ pc'[u] = "idle" /\ crashes' = crashes
             /\ ~(pc[u] = "unlink" /\ Live) =>
             Classify_File(u)' \notin {"PATCH", "CHECKOUT", "NEEDS_MERGE", "REMOVE_ENTRY"}]_vars
  BY <1>1
<1>3. QED
  BY <1>2, Invariance, PTL DEF Spec, UpdateSettles
=============================================================================
