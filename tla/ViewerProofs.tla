------------------------------ MODULE ViewerProofs ------------------------------
(***************************************************************************)
(* The viewer: which archives it holds in memory, and which pages it shows.   *)
(*                                                                         *)
(* The file cache, whatever is opened, changed and listed.  Then the pages:   *)
(* a page is on the screen and Home and End reach the ends, for every number *)
(* of pages and however many keys a frame brings.  The invariant is that the  *)
(* first place of the view is a page, or in spreads the virtual page before    *)
(* the first one; a file of one page needs to be followed more closely.         *)
(***************************************************************************)
EXTENDS MCViewer, PagePipelineProofs, ThumbGenerationProofs

-----------------------------------------------------------------------------
(* The file cache *)

OpeningOK ==
  \/ opening = Closed
  \/ opening \in [at : {"listing", "cancelled", "empty", "estimating"},
                  path : Paths, cancelled : BOOLEAN]
  \/ opening \in [at : {"ready"}, path : Paths, cancelled : BOOLEAN,
                  check : [fits : BOOLEAN, prepared : Sizes \cup {NotHeld}]]

FilesInv == FilesTypeOK /\ OpeningOK /\ HeldIsCharged /\ WaitingIsUnderway

\* What has to hold of the entries and their charge for FilesInv
StoreOK ==
  held \in [Paths -> Sizes \cup {NotHeld}] /\ charged \in Nat /\ HeldIsCharged

LEMMA PathsAreFinite == IsFiniteSet(Paths) /\ Paths \subseteq Nat /\ Nothing \notin Paths
BY PathsAssumption DEF Nothing

LEMMA ChargeIsNat ==
  ASSUME StoreOK, NEW S \in SUBSET Held
  PROVE  /\ Charge(S) \in Nat /\ Charge(Held) \in Nat
         /\ Charge(Held \ S) = Charge(Held) - Charge(S) /\ Charge(S) <= Charge(Held)
<1>1. IsFiniteSet(Held)
  BY PathsAreFinite, FS_Subset DEF Held
<1>2. \A p \in Held : held[p] \in Nat
  BY SizesAssumption DEF Held, StoreOK, Sizes, NotHeld
<1> QED BY <1>1, <1>2, SumOfSubset DEF Charge

\* insert charges what it keeps, and refunds what it evicts.
LEMMA InsertFileStep ==
  ASSUME StoreOK, NEW p \in Paths, NEW bytes \in Sizes, NEW at, InsertFile(p, bytes, at)
  PROVE  /\ StoreOK'
         /\ \E G \in Evictions(bytes, at) : G \subseteq Held /\ Held' = (Held \ G) \cup {p}
<1>1. PICK G \in Evictions(bytes, at) :
         /\ held' = [q \in Paths |-> IF q = p THEN bytes ELSE IF q \in G THEN NotHeld ELSE held[q]]
         /\ charged' = charged - Charge(G) + bytes
  BY DEF InsertFile
<1>2. /\ G \in SUBSET Held
      /\ G = Held \/ charged - Charge(G) + bytes <= MaxFileBytes
  BY DEF Evictions
<1>3. bytes \in Nat /\ bytes # NotHeld
  BY SizesAssumption DEF Sizes, NotHeld
<1>4. Held' = (Held \ G) \cup {p}
  BY <1>1, <1>2, <1>3 DEF Held
<1>5. held' \in [Paths -> Sizes \cup {NotHeld}]
  BY <1>1 DEF StoreOK
<1>6. /\ Charge(G) \in Nat /\ Charge(Held) \in Nat /\ charged \in Nat
      /\ Charge(Held \ G) = Charge(Held) - Charge(G)
      /\ Charge(G) <= Charge(Held) /\ Charge(Held) <= charged
  BY <1>2, ChargeIsNat DEF StoreOK, HeldIsCharged
<1>7. charged' \in Nat /\ charged' >= Charge(Held \ G) + bytes
  BY <1>1, <1>3, <1>6
<1> DEFINE rest == (Held \ G) \ {p}
<1>8. Charge(Held)' <= bytes + Charge(Held \ G)
  <2>1. IsFiniteSet(Held') /\ IsFiniteSet(Held \ G)
    <3>1. Held' \in SUBSET Paths /\ Held \ G \in SUBSET Paths
      BY DEF Held
    <3> QED BY <3>1, PathsAreFinite, FS_Subset
  <2>2. \A q \in Held' : held'[q] \in Nat
    BY <1>5, SizesAssumption DEF Held, Sizes, NotHeld
  <2>3. p \in Held' /\ held'[p] = bytes /\ Held' \ {p} = rest
    BY <1>1, <1>4
  <2>4. Charge(Held)' = SumFunctionOnSet(held', Held')
    BY DEF Charge
  <2>5. SumFunctionOnSet(held', Held') = bytes + SumFunctionOnSet(held', rest)
    BY <2>1, <2>2, <2>3, SumTakesOut
  <2>6. SumFunctionOnSet(held', rest) = SumFunctionOnSet(held, rest)
    <3>1. \A q \in rest : held'[q] = held[q]
      BY <1>1 DEF Held
    <3>2. IsFiniteSet(rest)
      BY <2>1, FS_Subset
    <3> HIDE DEF rest
    <3> QED BY <3>1, <3>2, SumOfEquals
  <2>7. /\ SumFunctionOnSet(held, rest) <= SumFunctionOnSet(held, Held \ G)
        /\ SumFunctionOnSet(held, rest) \in Nat /\ SumFunctionOnSet(held, Held \ G) \in Nat
    <3>1. \A q \in Held \ G : held[q] \in Nat
      BY SizesAssumption DEF Held, StoreOK, Sizes, NotHeld
    <3>2. rest \in SUBSET (Held \ G)
      OBVIOUS
    <3> HIDE DEF rest
    <3> QED BY <2>1, <3>1, <3>2, SumOfSubset
  <2>8. Charge(Held \ G) = SumFunctionOnSet(held, Held \ G)
    BY DEF Charge
  <2> HIDE DEF rest
  <2> QED BY <1>3, <2>4, <2>5, <2>6, <2>7, <2>8
<1>9. Charge(Held)' \in Int
  <2>1. IsFiniteSet(Held')
    <3>1. Held' \in SUBSET Paths
      BY DEF Held
    <3> QED BY <3>1, PathsAreFinite, FS_Subset
  <2>2. \A q \in Held' : held'[q] \in Nat
    BY <1>5, SizesAssumption DEF Held, Sizes, NotHeld
  <2>3. SumFunctionOnSet(held', Held') \in Nat
    BY <2>1, <2>2, SumIsNat
  <2> QED BY <2>3 DEF Charge
<1>10. (charged >= Charge(Held))'
  BY <1>3, <1>6, <1>7, <1>8, <1>9
<1>11. (Cardinality(Held) > 1 => charged <= MaxFileBytes)'
  <2>1. CASE G = Held
    <3>1. Held' = {p}
      BY <1>4, <2>1
    <3>2. Cardinality(Held') = 1
      BY <3>1, FS_Singleton
    <3> QED BY <3>2
  <2>2. CASE G # Held
    BY <1>1, <1>2, <2>2
  <2> QED BY <2>1, <2>2
<1> QED BY <1>1, <1>2, <1>4, <1>5, <1>7, <1>10, <1>11 DEF StoreOK, HeldIsCharged

\* Under which path the viewer's archive is looked at
LEMMA InViewIsPath ==
  ASSUME FilesTypeOK, NEW p \in Paths
  PROVE  InView(p) \in Paths /\ (current \in list => InView(p) = current)
BY PathsAreFinite DEF FilesTypeOK, InView, Nothing

LEMMA AppendHas ==
  ASSUME NEW S, NEW s \in Seq(S), NEW x \in S
  PROVE  /\ Append(s, x) \in Seq(S)
         /\ \A y : (\E n \in DOMAIN Append(s, x) : Append(s, x)[n] = y)
                   <=> (y = x \/ \E n \in DOMAIN s : s[n] = y)
<1>1. /\ Len(s) \in Nat /\ DOMAIN s = 1 .. Len(s)
      /\ DOMAIN Append(s, x) = 1 .. Len(s) + 1
      /\ \A n \in 1 .. Len(s) : Append(s, x)[n] = s[n]
      /\ Append(s, x)[Len(s) + 1] = x
  OBVIOUS
<1>2. Append(s, x) \in Seq(S)
  OBVIOUS
<1>3. ASSUME NEW y, y = x \/ \E n \in DOMAIN s : s[n] = y
      PROVE  \E n \in DOMAIN Append(s, x) : Append(s, x)[n] = y
  BY <1>1, <1>3
<1>4. ASSUME NEW y, NEW n \in DOMAIN Append(s, x), Append(s, x)[n] = y
      PROVE  y = x \/ \E m \in DOMAIN s : s[m] = y
  BY <1>1, <1>4
<1> QED BY <1>2, <1>3, <1>4

LEMMA TailHas ==
  ASSUME NEW S, NEW s \in Seq(S), s # <<>>
  PROVE  /\ Tail(s) \in Seq(S) /\ Head(s) \in S
         /\ \A n \in DOMAIN s : s[n] = Head(s) \/ \E m \in DOMAIN Tail(s) : Tail(s)[m] = s[n]
<1>1. /\ Len(s) \in Nat \ {0} /\ DOMAIN s = 1 .. Len(s)
      /\ DOMAIN Tail(s) = 1 .. Len(s) - 1
      /\ \A n \in 1 .. Len(s) - 1 : Tail(s)[n] = s[n + 1]
      /\ Head(s) = s[1]
  OBVIOUS
<1>2. ASSUME NEW n \in DOMAIN s, n # 1
      PROVE  \E m \in DOMAIN Tail(s) : Tail(s)[m] = s[n]
  <2>1. n - 1 \in 1 .. Len(s) - 1 /\ (n - 1) + 1 = n
    BY <1>1, <1>2
  <2> QED BY <1>1, <2>1
<1>3. Tail(s) \in Seq(S) /\ Head(s) \in S
  OBVIOUS
<1> QED BY <1>1, <1>2, <1>3

LEMMA SizesOK ==
  ASSUME FilesTypeOK, NEW p \in Paths
  PROVE  /\ Contents(p) \in Sizes \cup {NotHeld}
         /\ \A e \in Estimates(p) : e \in [fits : BOOLEAN, prepared : Sizes \cup {NotHeld}]
<1>1. disk[p] \in Sizes \cup {Unreadable} /\ 0 \in Sizes
  BY SizesAssumption DEF FilesTypeOK, Sizes
<1>2. Contents(p) \in Sizes \cup {NotHeld}
  BY <1>1 DEF Contents, Unreadable, NotHeld
<1>3. ASSUME NEW e \in Estimates(p) PROVE e \in [fits : BOOLEAN, prepared : Sizes \cup {NotHeld}]
  <2>1. \/ e = [fits |-> FALSE, prepared |-> NotHeld]
        \/ e = [fits |-> TRUE, prepared |-> NotHeld]
        \/ e = [fits |-> TRUE, prepared |-> Contents(p)]
    BY DEF Estimates
  <2>2. /\ [fits |-> FALSE, prepared |-> NotHeld] \in [fits : BOOLEAN, prepared : Sizes \cup {NotHeld}]
        /\ [fits |-> TRUE, prepared |-> NotHeld] \in [fits : BOOLEAN, prepared : Sizes \cup {NotHeld}]
    OBVIOUS
  <2>3. [fits |-> TRUE, prepared |-> Contents(p)] \in [fits : BOOLEAN, prepared : Sizes \cup {NotHeld}]
    BY <1>2
  <2> QED BY <2>1, <2>2, <2>3
<1> QED BY <1>2, <1>3

\* An archive that is taken: kept, shown and asked for.
LEMMA AcceptStep ==
  ASSUME FilesInv, NEW p \in Paths, NEW check \in [fits : BOOLEAN, prepared : Sizes \cup {NotHeld}],
         Accept(p, check), UNCHANGED <<reading, answers>>
  PROVE  /\ StoreOK' /\ current' \in Paths \cup {Nothing}
         /\ waiting' \subseteq Paths /\ queue' \in Seq(Paths) /\ WaitingIsUnderway'
<1>1. StoreOK
  BY DEF FilesInv, FilesTypeOK, StoreOK
<1>2. StoreOK'
  <2>1. CASE InsertFile(p, check.prepared, InView(p)) /\ check.prepared # NotHeld
    BY <1>1, <2>1, InsertFileStep
  <2>2. CASE UNCHANGED cache
    BY <1>1, <2>2 DEF cache, StoreOK, HeldIsCharged, Held, Charge
  <2> QED BY <2>1, <2>2 DEF Accept
<1>3. current' \in Paths \cup {Nothing}
  BY DEF Accept, FilesInv, FilesTypeOK
<1>4. /\ waiting \subseteq Paths /\ queue \in Seq(Paths)
      /\ WaitingIsUnderway
  BY DEF FilesInv, FilesTypeOK
<1>5. CASE UNCHANGED <<waiting, queue>>
  BY <1>2, <1>3, <1>4, <1>5 DEF WaitingIsUnderway
<1>6. CASE waiting' = waiting \cup {p} /\ queue' = Append(queue, p)
  <2>1. /\ queue' \in Seq(Paths)
        /\ \A y : (\E n \in DOMAIN queue' : queue'[n] = y)
                  <=> (y = p \/ \E n \in DOMAIN queue : queue[n] = y)
    BY <1>4, <1>6, AppendHas
  <2>2. WaitingIsUnderway'
    BY <1>4, <1>6, <2>1 DEF WaitingIsUnderway
  <2> QED BY <1>2, <1>3, <1>4, <1>6, <2>1, <2>2
<1> QED BY <1>5, <1>6 DEF Accept, EnsureCached

LEMMA FilesInvInit == FilesInit => FilesInv
<1> SUFFICES ASSUME FilesInit PROVE FilesInv
  OBVIOUS
<1>1. Held = {}
  BY DEF FilesInit, Held
<1>2. Charge({}) = 0 /\ Cardinality({}) = 0
  BY FS_EmptySet, SumStep DEF Charge
<1>3. HeldIsCharged
  BY <1>1, <1>2 DEF FilesInit, HeldIsCharged
<1>4. FilesTypeOK
  BY DEF FilesInit, FilesTypeOK, Sizes
<1> QED BY <1>3, <1>4 DEF FilesInit, FilesInv, OpeningOK, WaitingIsUnderway

LEMMA FilesInvNext == FilesInv /\ [FilesNext]_filesVars => FilesInv'
<1> SUFFICES ASSUME FilesInv, [FilesNext]_filesVars PROVE FilesInv'
  OBVIOUS
<1> USE DEF FilesInv
<1>store. StoreOK
  BY DEF FilesTypeOK, StoreOK
<1>same. UNCHANGED cache => HeldIsCharged'
  BY DEF cache, HeldIsCharged, Held, Charge
<1>stay. UNCHANGED worker => WaitingIsUnderway'
  BY DEF worker, WaitingIsUnderway
<1>1. CASE UNCHANGED filesVars
  BY <1>1, <1>same, <1>stay DEF filesVars, cache, worker, viewer, FilesTypeOK, OpeningOK
<1>2. CASE \E p \in Paths : StartOpen(p)
  BY <1>2, <1>same, <1>stay DEF StartOpen, cache, worker, FilesTypeOK, OpeningOK
<1>3. CASE Listed
  <2>1. OpeningOK'
    BY <1>3 DEF Listed, OpeningOK, Closed
  <2> QED BY <1>3, <1>same, <1>stay, <2>1 DEF Listed, cache, worker, FilesTypeOK
<1>4. CASE Estimate
  <2>1. opening.path \in Paths /\ opening.cancelled \in BOOLEAN
    BY <1>4 DEF Estimate, OpeningOK, Closed
  <2>2. OpeningOK'
    BY <1>4, <2>1, SizesOK DEF Estimate, OpeningOK
  <2> QED BY <1>4, <1>same, <1>stay, <2>2 DEF Estimate, cache, worker, FilesTypeOK
<1>5. CASE Cancel
  <2>1. OpeningOK'
    BY <1>5 DEF Cancel, OpeningOK
  <2> QED BY <1>5, <1>same, <1>stay, <2>1 DEF Cancel, cache, worker, FilesTypeOK
<1>6. CASE PollOpen
  <2>1. CASE opening.at = "ready"
    <3>1. /\ opening.path \in Paths
          /\ opening.check \in [fits : BOOLEAN, prepared : Sizes \cup {NotHeld}]
      BY <2>1 DEF OpeningOK, Closed
    <3>2. Accept(opening.path, opening.check) /\ UNCHANGED <<reading, answers>>
      BY <1>6, <2>1 DEF PollOpen
    <3>3. /\ StoreOK' /\ current' \in Paths \cup {Nothing}
          /\ waiting' \subseteq Paths /\ queue' \in Seq(Paths) /\ WaitingIsUnderway'
      BY <3>1, <3>2, AcceptStep
    <3> QED BY <1>6, <3>3 DEF PollOpen, FilesTypeOK, OpeningOK, StoreOK
  <2>2. CASE opening.at # "ready"
    BY <1>6, <1>same, <1>stay, <2>2 DEF PollOpen, cache, worker, FilesTypeOK, OpeningOK
  <2> QED BY <2>1, <2>2
<1>7. ASSUME NEW p \in Paths, NextFile(p) PROVE FilesInv'
  <2>1. PICK e \in Estimates(p) : Accept(p, e)
    BY <1>7 DEF NextFile
  <2>2. UNCHANGED <<reading, answers>> /\ UNCHANGED <<disk, list, opening>>
    BY <1>7 DEF NextFile
  <2>3. e \in [fits : BOOLEAN, prepared : Sizes \cup {NotHeld}]
    BY SizesOK
  <2>4. /\ StoreOK' /\ current' \in Paths \cup {Nothing}
        /\ waiting' \subseteq Paths /\ queue' \in Seq(Paths) /\ WaitingIsUnderway'
    BY <2>1, <2>2, <2>3, AcceptStep
  <2> QED BY <2>2, <2>4 DEF FilesTypeOK, OpeningOK, StoreOK
<1>8. CASE CloseViewer
  BY <1>8, <1>same, <1>stay DEF CloseViewer, cache, worker, FilesTypeOK, OpeningOK
<1>9. CASE Receive
  <2>1. /\ queue' \in Seq(Paths) /\ Head(queue) \in Paths
        /\ \A n \in DOMAIN queue : \/ queue[n] = Head(queue)
                                   \/ \E m \in DOMAIN queue' : queue'[m] = queue[n]
    BY <1>9, TailHas DEF Receive, FilesTypeOK
  <2>2. CASE reading' = Head(queue) /\ UNCHANGED answers
    <3>1. Nothing \notin waiting
      BY PathsAreFinite DEF FilesTypeOK
    <3>2. WaitingIsUnderway'
      BY <1>9, <2>1, <2>2, <3>1 DEF Receive, WaitingIsUnderway
    <3> QED BY <1>9, <1>same, <2>1, <2>2, <3>2 DEF Receive, cache, viewer, FilesTypeOK, OpeningOK
  <2>3. CASE Reply(Head(queue), NotHeld) /\ UNCHANGED reading
    <3> DEFINE answer == [path |-> Head(queue), bytes |-> NotHeld]
    <3>1. answer \in [path : Paths, bytes : Sizes \cup {NotHeld}]
      BY <2>1
    <3>2. answers' = Append(answers, answer) /\ answer.path = Head(queue)
      BY <2>3 DEF Reply
    <3> HIDE DEF answer
    <3>3. /\ answers' \in Seq([path : Paths, bytes : Sizes \cup {NotHeld}])
          /\ \A y : (\E n \in DOMAIN answers' : answers'[n] = y)
                    <=> (y = answer \/ \E n \in DOMAIN answers : answers[n] = y)
      <4>1. answers \in Seq([path : Paths, bytes : Sizes \cup {NotHeld}])
        BY DEF FilesTypeOK
      <4> QED BY <3>1, <3>2, <4>1, AppendHas
    <3>4. WaitingIsUnderway'
      <4> SUFFICES ASSUME NEW p \in waiting'
                   PROVE  \/ p = reading'
                          \/ \E n \in DOMAIN queue' : queue'[n] = p
                          \/ \E n \in DOMAIN answers' : answers'[n].path = p
        BY DEF WaitingIsUnderway
      <4>1. p \in waiting
        BY <1>9 DEF Receive
      <4>2. CASE p = reading
        BY <2>3, <4>2
      <4>3. CASE \E n \in DOMAIN queue : queue[n] = p
        BY <2>1, <3>2, <3>3, <4>3
      <4>4. CASE \E n \in DOMAIN answers : answers[n].path = p
        BY <3>3, <4>4
      <4> QED BY <4>1, <4>2, <4>3, <4>4 DEF WaitingIsUnderway
    <3> QED BY <1>9, <1>same, <2>1, <2>3, <3>3, <3>4 DEF Receive, cache, viewer, FilesTypeOK, OpeningOK
  <2> QED BY <1>9, <2>2, <2>3 DEF Receive
<1>10. CASE Read
  <2> DEFINE answer == [path |-> reading, bytes |-> Contents(reading)]
  <2>1. reading \in Paths
    BY <1>10 DEF Read, FilesTypeOK
  <2>2. answer \in [path : Paths, bytes : Sizes \cup {NotHeld}]
    BY <2>1, SizesOK
  <2>3. answers' = Append(answers, answer) /\ answer.path = reading
    BY <1>10 DEF Read, Reply
  <2> HIDE DEF answer
  <2>4. /\ answers' \in Seq([path : Paths, bytes : Sizes \cup {NotHeld}])
        /\ \A y : (\E n \in DOMAIN answers' : answers'[n] = y)
                  <=> (y = answer \/ \E n \in DOMAIN answers : answers[n] = y)
    <3> DEFINE Reports == [path : Paths, bytes : Sizes \cup {NotHeld}]
    <3>1. answers \in Seq(Reports) /\ answer \in Reports
      BY <2>2 DEF FilesTypeOK
    <3> HIDE DEF Reports
    <3>2. /\ Append(answers, answer) \in Seq(Reports)
          /\ \A y : (\E n \in DOMAIN Append(answers, answer) :
                        Append(answers, answer)[n] = y)
                    <=> (y = answer \/ \E n \in DOMAIN answers : answers[n] = y)
      BY <3>1, AppendHas
    <3>3. answers' = Append(answers, answer)
      BY <2>3
    <3> QED BY <3>2, <3>3 DEF Reports
  <2>5. WaitingIsUnderway'
    <3> SUFFICES ASSUME NEW p \in waiting'
                 PROVE  \/ \E n \in DOMAIN queue' : queue'[n] = p
                        \/ \E n \in DOMAIN answers' : answers'[n].path = p
      BY DEF WaitingIsUnderway
    <3>1. p \in waiting /\ queue' = queue
      BY <1>10 DEF Read
    <3>2. CASE p = reading
      BY <2>3, <2>4, <3>2
    <3>3. CASE \E n \in DOMAIN queue : queue[n] = p
      BY <3>1, <3>3
    <3>4. CASE \E n \in DOMAIN answers : answers[n].path = p
      BY <2>4, <3>4
    <3> QED BY <3>1, <3>2, <3>3, <3>4 DEF WaitingIsUnderway
  <2> QED BY <1>10, <1>same, <2>4, <2>5 DEF Read, cache, viewer, FilesTypeOK, OpeningOK
<1>11. CASE PollFiles
  <2>1. /\ answers' \in Seq([path : Paths, bytes : Sizes \cup {NotHeld}])
        /\ Head(answers) \in [path : Paths, bytes : Sizes \cup {NotHeld}]
        /\ \A n \in DOMAIN answers : \/ answers[n] = Head(answers)
                                     \/ \E m \in DOMAIN answers' : answers'[m] = answers[n]
    BY <1>11, TailHas DEF PollFiles, FilesTypeOK
  <2>2. StoreOK'
    <3>1. CASE UNCHANGED cache
      BY <1>store, <3>1 DEF cache, StoreOK, HeldIsCharged, Held, Charge
    <3>2. CASE /\ Head(answers).bytes # NotHeld
               /\ InsertFile(Head(answers).path, Head(answers).bytes, InView(Head(answers).path))
      BY <1>store, <2>1, <3>2, InsertFileStep
    <3> QED BY <1>11, <3>1, <3>2 DEF PollFiles
  <2>3. WaitingIsUnderway'
    <3> SUFFICES ASSUME NEW p \in waiting'
                 PROVE  \/ p = reading'
                        \/ \E n \in DOMAIN queue' : queue'[n] = p
                        \/ \E n \in DOMAIN answers' : answers'[n].path = p
      BY DEF WaitingIsUnderway
    <3>1. p \in waiting /\ p # Head(answers).path /\ UNCHANGED <<queue, reading>>
      BY <1>11 DEF PollFiles
    <3>2. CASE \E n \in DOMAIN answers : answers[n].path = p
      BY <2>1, <3>1, <3>2
    <3> QED BY <3>1, <3>2 DEF WaitingIsUnderway
  <2> QED BY <1>11, <2>1, <2>2, <2>3 DEF PollFiles, viewer, StoreOK, FilesTypeOK, OpeningOK
<1>12. ASSUME NEW p \in Paths, NEW n \in Sizes \cup {Unreadable}, ChangeFile(p, n) PROVE FilesInv'
  BY <1>12, <1>same, <1>stay DEF ChangeFile, cache, worker, viewer, FilesTypeOK, OpeningOK
<1>13. ASSUME NEW L \in SUBSET Paths, ChangeList(L) PROVE FilesInv'
  BY <1>13, <1>same, <1>stay DEF ChangeList, cache, worker, viewer, FilesTypeOK, OpeningOK
<1> QED BY <1>1, <1>2, <1>3, <1>4, <1>5, <1>6, <1>7, <1>8, <1>9, <1>10, <1>11, <1>12, <1>13
        DEF FilesNext

\* The invariant of the file cache: every entry, request and answer fits the others while
\* archives are opened, read in the background, evicted and listed anew.
THEOREM FilesInvariance == FilesSpec => []FilesInv
BY FilesInvInit, FilesInvNext, PTL DEF FilesSpec

\* The entries, the charge, the queue and the answers are of their types.
THEOREM FilesTypeCorrect == FilesSpec => []FilesTypeOK
<1>1. FilesInv => FilesTypeOK
  BY DEF FilesInv
<1> QED BY <1>1, FilesInvariance, PTL

\* What the file cache keeps is charged for, so that eviction never takes total_bytes below
\* zero, and more than one archive is kept only within the budget (FileCache::insert).
THEOREM HeldFilesAreCharged == FilesSpec => []HeldIsCharged
<1>1. FilesInv => HeldIsCharged
  BY DEF FilesInv
<1> QED BY <1>1, FilesInvariance, PTL

\* The archive whose pages wait in file_cache_pending is queued, being read or answered
\* (ensure_file_cached, spawn_file_cache_worker, poll_workers).
THEOREM AwaitedFileIsUnderway == FilesSpec => []WaitingIsUnderway
<1>1. FilesInv => WaitingIsUnderway
  BY DEF FilesInv
<1> QED BY <1>1, FilesInvariance, PTL

\* Two listed paths with one place are one path.
LEMMA PlacesDiffer ==
  ASSUME FilesTypeOK, NEW p \in list, NEW q \in list, Place(p) = Place(q)
  PROVE  p = q
<1> DEFINE before(x) == {r \in list : r < x}
<1>1. list \subseteq Nat /\ IsFiniteSet(list)
  BY PathsAreFinite, FS_Subset DEF FilesTypeOK
<1>2. ASSUME NEW x \in list, NEW y \in list, x < y PROVE Place(x) # Place(y)
  <2>1. before(x) \in SUBSET before(y) /\ x \in before(y) /\ x \notin before(x)
    <3>1. \A r \in list : r < x => r < y
      BY <1>1, <1>2
    <3>2. ~(x < x)
      BY <1>1
    <3> QED BY <1>2, <3>1, <3>2
  <2>2. IsFiniteSet(before(y))
    BY <1>1, FS_Subset
  <2>3. Cardinality(before(x)) # Cardinality(before(y))
    <3> HIDE DEF before
    <3> QED BY <2>1, <2>2, FS_Subset
  <2> QED BY <2>3 DEF Place
<1> QED BY <1>1, <1>2

LEMMA PlaceIsNat ==
  ASSUME FilesTypeOK, NEW p
  PROVE  Place(p) \in Nat
<1>1. IsFiniteSet({q \in list : q < p})
  <2>1. {q \in list : q < p} \in SUBSET Paths
    BY DEF FilesTypeOK
  <2> QED BY <2>1, PathsAreFinite, FS_Subset
<1> QED BY <1>1, FS_CardinalityType DEF Place

LEMMA FarIsPositive == Far \in Nat /\ Far > 0
BY PathsAreFinite, FS_CardinalityType DEF Far

\* The path in view is nearest of all: what is at its distance is itself.
LEMMA NearestIsViewed ==
  ASSUME FilesTypeOK, NEW at \in list, NEW p \in Paths
  PROVE  /\ Distance(at, at) = 0
         /\ Distance(at, at) >= Distance(p, at) => p = at
<1>1. Place(at) \in Nat /\ Place(p) \in Nat
  BY PlaceIsNat
<1>2. Distance(at, at) = 0
  BY <1>1 DEF Distance
<1>3. ASSUME Distance(at, at) >= Distance(p, at) PROVE p = at
  <2>1. p \in list
    BY <1>2, <1>3, FarIsPositive DEF Distance
  <2>2. Place(p) = Place(at)
    BY <1>1, <1>2, <1>3, <2>1 DEF Distance
  <2> QED BY <2>1, <2>2, PlacesDiffer
<1> QED BY <1>2, <1>3

\* An insertion that evicts the path in view keeps the newcomer only.
LEMMA InsertEvictsViewedLast ==
  ASSUME FilesInv, NEW p \in Paths, NEW bytes \in Sizes, InsertFile(p, bytes, InView(p)),
         current \in list, current \in Held, current \notin Held'
  PROVE  Cardinality(Held') = 1
<1>1. StoreOK /\ FilesTypeOK /\ InView(p) = current
  BY InViewIsPath DEF FilesInv, FilesTypeOK, StoreOK
<1>2. PICK G \in Evictions(bytes, current) : G \subseteq Held /\ Held' = (Held \ G) \cup {p}
  BY <1>1, InsertFileStep
<1>3. \A g \in G, k \in Held \ G : Distance(g, current) >= Distance(k, current)
  BY DEF Evictions
<1>4. current \in G
  BY <1>2
<1>5. \A k \in Held \ G : k = current
  BY <1>1, <1>3, <1>4, NearestIsViewed DEF Held
<1>6. Held' = {p}
  BY <1>2, <1>4, <1>5
<1> QED BY <1>6, FS_Singleton

\* The archive in the viewer, while it is listed, is evicted only when nothing but the
\* newcomer stays (evict_furthest measures the distance from it).
THEOREM ViewedIsEvictedLast == FilesSpec => ViewedGoesLast
<1> DEFINE Lost == current \in list /\ held[current] # NotHeld /\ held'[current] = NotHeld
<1>1. FilesInv /\ [FilesNext]_filesVars => [Lost => Cardinality(Held') = 1]_filesVars
  <2> SUFFICES ASSUME FilesInv, FilesNext, Lost PROVE Cardinality(Held') = 1
    OBVIOUS
  <2>1. current \in list /\ current \in Held /\ current \notin Held'
    BY DEF FilesInv, FilesTypeOK, Held
  <2>2. ~UNCHANGED cache
    BY <2>1 DEF cache, Held
  <2>3. ASSUME NEW p \in Paths, NEW bytes \in Sizes, InsertFile(p, bytes, InView(p))
        PROVE  Cardinality(Held') = 1
    BY <2>1, <2>3, InsertEvictsViewedLast
  <2>4. ASSUME NEW p \in Paths, NEW check \in [fits : BOOLEAN, prepared : Sizes \cup {NotHeld}],
               Accept(p, check)
        PROVE  Cardinality(Held') = 1
    BY <2>2, <2>3, <2>4 DEF Accept
  <2>5. CASE PollOpen
    <3>1. opening.at = "ready" /\ Accept(opening.path, opening.check)
      BY <2>2, <2>5 DEF PollOpen, cache
    <3>2. /\ opening.path \in Paths
          /\ opening.check \in [fits : BOOLEAN, prepared : Sizes \cup {NotHeld}]
      BY <3>1 DEF FilesInv, OpeningOK, Closed
    <3> QED BY <2>4, <3>1, <3>2
  <2>6. ASSUME NEW p \in Paths, NextFile(p) PROVE Cardinality(Held') = 1
    BY <2>4, <2>6, SizesOK DEF NextFile, FilesInv
  <2>7. CASE PollFiles
    <3>1. Head(answers) \in [path : Paths, bytes : Sizes \cup {NotHeld}]
      BY <2>7, TailHas DEF PollFiles, FilesInv, FilesTypeOK
    <3>2. /\ Head(answers).bytes # NotHeld
          /\ InsertFile(Head(answers).path, Head(answers).bytes, InView(Head(answers).path))
      BY <2>2, <2>7 DEF PollFiles
    <3> QED BY <2>3, <3>1, <3>2
  <2> QED BY <2>2, <2>5, <2>6, <2>7
          DEF FilesNext, Listed, Estimate, Cancel, CloseViewer, Receive, Read, StartOpen,
              ChangeFile, ChangeList
<1> QED BY <1>1, FilesInvariance, PTL DEF FilesSpec, ViewedGoesLast

-----------------------------------------------------------------------------
(* The pages in view *)

\* The first place of a view, and where the only page of a file can be.
InFile(v) == Lo(v) >= (IF IsSpread(v) THEN -1 ELSE 0) /\ Lo(v) <= total - 1
OnlyPage(v) == total = 1 => v.base = 0 /\ v.off # 1
Good(v) == InFile(v) /\ OnlyPage(v)

\* What every operation on views has to keep.
Keeps(v, w) == w \in Views /\ (Good(v) => Good(w))

PagesExist == total \in Nat \ {0} /\ raw \in BOOLEAN

-------------------------------------------------------------------------------
(* The operations *)

LEMMA AdvanceKeeps ==
  ASSUME NEW v \in Views, PagesExist
  PROVE  /\ Keeps(v, Advance(v, IsSpread(v)))
         /\ Advance(v, IsSpread(v)).mode = v.mode
BY DEF PagesExist, Keeps, Good, InFile, OnlyPage, Advance, CanAdvance, Step, Lo, IsSpread,
       Views, Modes

LEMMA RetreatKeeps ==
  ASSUME NEW v \in Views, PagesExist
  PROVE  /\ Keeps(v, Retreat(v, IsSpread(v)))
         /\ Retreat(v, IsSpread(v)).mode = v.mode
BY DEF PagesExist, Keeps, Good, InFile, OnlyPage, Retreat, CanRetreat, Step, Lo, IsSpread,
       Views, Modes

LEMMA MarkEndLands ==
  ASSUME NEW v \in Views, NEW spread \in BOOLEAN
  PROVE  /\ MarkEnd(v, spread) \in Views /\ MarkEnd(v, spread).mode = v.mode
         /\ MarkEnd(v, spread).base = v.base /\ MarkEnd(v, spread).off = v.off
BY DEF MarkEnd, Views

LEMMA MarkEndKeeps ==
  ASSUME NEW v \in Views, PagesExist, NEW spread \in BOOLEAN
  PROVE  Keeps(v, MarkEnd(v, spread)) /\ MarkEnd(v, spread).mode = v.mode
BY DEF PagesExist, Keeps, Good, InFile, OnlyPage, MarkEnd, Lo, IsSpread, Views, Modes

LEMMA ShiftForwardKeeps ==
  ASSUME NEW v \in Views, PagesExist
  PROVE  Keeps(v, ShiftForward(v)) /\ ShiftForward(v).mode = v.mode
BY DEF PagesExist, Keeps, Good, InFile, OnlyPage, ShiftForward, CanShiftForward, Lo,
       IsSpread, Views, Modes

\* Only spreads are shifted: the virtual page before the first one is no single page.
LEMMA ShiftBackwardKeeps ==
  ASSUME NEW v \in Views, PagesExist, IsSpread(v)
  PROVE  Keeps(v, ShiftBackward(v)) /\ ShiftBackward(v).mode = v.mode
BY DEF PagesExist, Keeps, Good, InFile, OnlyPage, ShiftBackward, CanShiftBackward, Lo,
       IsSpread, Views, Modes

LEMMA CycleOffsetKeeps ==
  ASSUME NEW v \in Views, PagesExist, IsSpread(v)
  PROVE  Keeps(v, CycleOffset(v)) /\ CycleOffset(v).mode = v.mode
<1> DEFINE moved ==
        IF v.off > 0 THEN ShiftBackward(v)
        ELSE IF v.off < 0 THEN ShiftForward(v)
        ELSE IF v.back
        THEN IF CanShiftBackward(v) THEN ShiftBackward(v) ELSE ShiftForward(v)
        ELSE IF CanShiftForward(v)  THEN ShiftForward(v)  ELSE ShiftBackward(v)
<1>1. Keeps(v, moved) /\ moved.mode = v.mode
  BY ShiftForwardKeeps, ShiftBackwardKeeps
<1>2. CycleOffset(v) = [moved EXCEPT !.back = IF moved.off = 0 THEN @ ELSE moved.off > 0]
  BY DEF CycleOffset
<1> DEFINE w == CycleOffset(v)
<1> HIDE DEF moved
<1>3. moved \in Views
  BY <1>1 DEF Keeps
<1>4. (IF moved.off = 0 THEN moved.back ELSE moved.off > 0) \in BOOLEAN
  <2>1. moved.off \in Int /\ moved.back \in BOOLEAN
    BY <1>3 DEF Views
  <2>2. CASE moved.off = 0
    BY <2>1, <2>2, Zenon
  <2>3. CASE moved.off # 0
    <3>1. (moved.off > 0) \in BOOLEAN
      BY <2>1
    <3> QED
      BY <2>3, <3>1, Zenon
  <2> QED
    BY <2>2, <2>3
<1>5. w \in Views /\ w.mode = moved.mode /\ w.base = moved.base /\ w.off = moved.off
  <2> DEFINE next == IF moved.off = 0 THEN moved.back ELSE moved.off > 0
  <2>1. w = [moved EXCEPT !.back = next]
    BY <1>2
  <2>2. next \in BOOLEAN
    BY <1>4
  <2> HIDE DEF next
  <2>3. w = [mode |-> moved.mode, base |-> moved.base, off |-> moved.off,
             right |-> moved.right, back |-> next]
    BY <1>3, <2>1 DEF Views
  <2> QED
    BY <1>3, <2>2, <2>3 DEF Views
<1> HIDE DEF w
<1>6. Good(moved) => Good(w)
  BY <1>5 DEF Good, InFile, OnlyPage, Lo, IsSpread
<1> QED
  BY <1>1, <1>5, <1>6 DEF Keeps, w

LEMMA ResetViews ==
  ASSUME NEW v \in Views
  PROVE  /\ ResetOffset(v) \in Views
         /\ ResetOffset(v).off = 0 /\ ResetOffset(v).mode = v.mode
         /\ ResetOffset(v).base = v.base
<1> DEFINE x == [v EXCEPT !.off = 0]
<1>1. x \in Views /\ x.off = 0 /\ x.mode = v.mode /\ x.base = v.base
  BY DEF Views
<1>2. ResetOffset(v) = [x EXCEPT !.right = FALSE]
  BY DEF ResetOffset, Views
<1> HIDE DEF x
<1> QED
  BY <1>1, <1>2 DEF Views

\* A change of mode puts the pair, or the page, at the first page that was shown.
LEMMA SetModeLands ==
  ASSUME NEW v \in Views, NEW m \in Modes
  PROVE  /\ SetMode(v, m) \in Views
         /\ \/ SetMode(v, m) = v /\ IsSpread(v)
            \/ SetMode(v, m) = v /\ raw /\ m # "single"
            \/ /\ SetMode(v, m).off = 0 /\ SetMode(v, m).mode = m
               /\ SetMode(v, m).base = IF m = "single" THEN FirstReal(v)
                                                      ELSE 2 * (FirstReal(v) \div 2)
<1> DEFINE r == ResetOffset(v)
<1>1. r \in Views /\ r.off = 0
  BY ResetViews
<1>2. FirstReal(v) \in Int /\ 2 * (FirstReal(v) \div 2) \in Int
  BY DEF FirstReal, Lo, Views
<1>3. CASE m = "single"
  <2>1. SetMode(v, m) = [r EXCEPT !.mode = m, !.base = FirstReal(v)]
    BY <1>3 DEF SetMode
  <2> HIDE DEF r
  <2> QED
    BY <1>1, <1>2, <1>3, <2>1 DEF Views
<1>4. CASE m # "single" /\ (raw \/ v.mode = m)
  <2>1. SetMode(v, m) = v
    BY <1>4 DEF SetMode
  <2> QED
    BY <1>4, <2>1 DEF IsSpread
<1>5. CASE m # "single" /\ ~(raw \/ v.mode = m)
  <2>1. SetMode(v, m) = [r EXCEPT !.mode = m, !.base = 2 * (FirstReal(v) \div 2)]
    BY <1>5 DEF SetMode
  <2> DEFINE half == 2 * (FirstReal(v) \div 2)
  <2> HIDE DEF r, half
  <2>2. SetMode(v, m) = [r EXCEPT !.mode = m, !.base = half] /\ half \in Int
    BY <1>2, <2>1 DEF half
  <2>3. /\ SetMode(v, m) \in Views
        /\ SetMode(v, m).off = 0 /\ SetMode(v, m).mode = m /\ SetMode(v, m).base = half
    BY <1>1, <2>2 DEF Views
  <2> QED
    BY <1>5, <2>3 DEF half
<1> QED
  BY <1>3, <1>4, <1>5

\* The pair of a page begins with it or with the page before.
LEMMA PairOf ==
  ASSUME NEW n \in Nat
  PROVE  2 * (n \div 2) \in Nat /\ (2 * (n \div 2) = n \/ 2 * (n \div 2) = n - 1)
OBVIOUS

LEMMA SetModeKeeps ==
  ASSUME NEW v \in Views, PagesExist, NEW m \in Modes
  PROVE  Keeps(v, SetMode(v, m))
<1> DEFINE w == SetMode(v, m)
<1>1. w \in Views
  BY SetModeLands
<1>2. ASSUME Good(v) PROVE Good(w)
  <2>1. FirstReal(v) \in Nat /\ FirstReal(v) <= total - 1
    BY <1>2 DEF PagesExist, Good, InFile, FirstReal, Lo, Views
  <2>2. CASE w = v
    BY <1>2, <2>2
  <2>3. CASE /\ w.off = 0 /\ w.mode = m
             /\ w.base = IF m = "single" THEN FirstReal(v) ELSE 2 * (FirstReal(v) \div 2)
    <3>1. w.base \in Nat /\ w.base <= FirstReal(v)
      BY <2>1, <2>3, PairOf
    <3> HIDE DEF w
    <3>2. w.base <= total - 1
      BY <2>1, <3>1 DEF PagesExist
    <3> QED
      BY <2>3, <3>1, <3>2 DEF PagesExist, Good, InFile, OnlyPage, Lo, IsSpread
  <2> QED
    BY <2>2, <2>3, SetModeLands
<1> QED
  BY <1>1, <1>2 DEF Keeps

\* The last pair begins at most one page before the last page.
LEMMA LastPair ==
  ASSUME NEW n \in Nat
  PROVE  /\ (n \div 2) * 2 \in Nat /\ (n \div 2) * 2 \in {n, n - 1}
         /\ n <= 1 => (n \div 2) * 2 = 0
OBVIOUS

\* Home: in spreads the offset stays unless it would skip the first page.
LEMMA JumpFirstLands ==
  ASSUME NEW v \in Views
  PROVE  LET w == JumpFirst(v, IsSpread(v))
         IN  /\ w \in Views /\ w.mode = v.mode /\ w.base = 0
             /\ w.off = IF IsSpread(v) /\ v.off # 0 THEN -1 ELSE 0
<1> DEFINE first == [v EXCEPT !.base = 0]
           u == IF ~IsSpread(v) THEN ResetOffset(first)
                ELSE IF Lo(first) > 0 THEN VirtualLeft(first) ELSE first
<1>1. first \in Views /\ first.mode = v.mode /\ first.base = 0 /\ first.off = v.off
  BY DEF Views
<1>2. JumpFirst(v, IsSpread(v)) = MarkEnd(u, IsSpread(v))
  BY DEF JumpFirst
<1> HIDE DEF first
<1>3. /\ u \in Views /\ u.mode = v.mode /\ u.base = 0
      /\ u.off = IF IsSpread(v) /\ v.off # 0 THEN -1 ELSE 0
  <2>1. CASE ~IsSpread(v)
    BY <1>1, <2>1, ResetViews
  <2>2. CASE IsSpread(v) /\ Lo(first) > 0
    <3>1. u = [first EXCEPT !.off = -1]
      BY <2>2 DEF VirtualLeft
    <3>2. v.off # 0
      BY <1>1, <2>2 DEF Lo, Views
    <3> QED
      BY <1>1, <2>2, <3>1, <3>2 DEF Views
  <2>3. CASE IsSpread(v) /\ ~(Lo(first) > 0)
    <3>1. u = first /\ v.off \in {-1, 0}
      BY <1>1, <2>3 DEF Lo, Views
    <3> QED
      BY <1>1, <2>3, <3>1
  <2> QED
    BY <2>1, <2>2, <2>3
<1> HIDE DEF u
<1>4. LET w == MarkEnd(u, IsSpread(v))
      IN  w \in Views /\ w.mode = u.mode /\ w.base = u.base /\ w.off = u.off
  <2>1. IsSpread(v) \in BOOLEAN
    BY DEF IsSpread
  <2> QED
    BY <1>3, <2>1, MarkEndLands
<1> QED
  BY <1>2, <1>3, <1>4

\* End: the last pair that turning pages reaches.
LEMMA JumpLastLands ==
  ASSUME NEW v \in Views, PagesExist
  PROVE  LET w == JumpLast(v, IsSpread(v))
         IN  /\ w \in Views /\ w.mode = v.mode
             /\ w.off = IF IsSpread(v) THEN v.off ELSE 0
             /\ total = 1 => w.base = 0
             /\ IF ~IsSpread(v) THEN w.base = total - 1
                ELSE IF total - 1 - v.off < 0 THEN w.base = 0
                ELSE /\ w.base \in Nat
                     /\ w.base \in {total - 1 - v.off, total - 2 - v.off}
<1> DEFINE target == total - 1 - v.off
           half == (target \div 2) * 2
           u == IF IsSpread(v)
                THEN [v EXCEPT !.base = IF target >= 0 THEN half ELSE 0]
                ELSE ResetOffset([v EXCEPT !.base = total - 1])
<1>1. target \in Int
  BY DEF PagesExist, Views
<1>2. JumpLast(v, IsSpread(v)) = MarkEnd(u, IsSpread(v))
  BY DEF JumpLast
<1>3. target >= 0 => /\ half \in Nat /\ half \in {target, target - 1}
                     /\ target <= 1 => half = 0
  <2> HIDE DEF target
  <2> QED
    BY <1>1, LastPair
<1>4. /\ u \in Views /\ u.mode = v.mode
      /\ u.off = IF IsSpread(v) THEN v.off ELSE 0
      /\ u.base = IF ~IsSpread(v) THEN total - 1
                  ELSE IF target >= 0 THEN half ELSE 0
  <2>1. CASE ~IsSpread(v)
    <3>1. [v EXCEPT !.base = total - 1] \in Views
      BY DEF PagesExist, Views
    <3> QED
      BY <2>1, <3>1, ResetViews DEF Views
  <2>2. CASE IsSpread(v) /\ target >= 0
    <3>1. u = [v EXCEPT !.base = half] /\ half \in Int
      BY <1>3, <2>2
    <3> HIDE DEF half, u
    <3>2. u \in Views /\ u.mode = v.mode /\ u.off = v.off /\ u.base = half
      BY <3>1 DEF Views
    <3> QED
      BY <2>2, <3>2
  <2>3. CASE IsSpread(v) /\ ~(target >= 0)
    <3>1. u = [v EXCEPT !.base = 0]
      BY <2>3
    <3> HIDE DEF u
    <3>2. u \in Views /\ u.mode = v.mode /\ u.off = v.off /\ u.base = 0
      BY <3>1 DEF Views
    <3> QED
      BY <2>3, <3>2
  <2> QED
    BY <2>1, <2>2, <2>3
<1>5. /\ MarkEnd(u, IsSpread(v)) \in Views
      /\ MarkEnd(u, IsSpread(v)).mode = u.mode /\ MarkEnd(u, IsSpread(v)).off = u.off
      /\ MarkEnd(u, IsSpread(v)).base = u.base
  <2> HIDE DEF u
  <2> QED
    BY <1>4, MarkEndLands DEF IsSpread
<1>6. ~(target >= 0) <=> total - 1 - v.off < 0
  BY <1>1
<1>7. target - 1 = total - 2 - v.off
  BY DEF PagesExist, Views
<1>8. total = 1 => target <= 1 /\ total - 1 = 0
  BY DEF PagesExist, Views
<1> HIDE DEF u, half, target
<1>9. target = total - 1 - v.off
  BY DEF target
<1> QED
  BY <1>1, <1>2, <1>3, <1>4, <1>5, <1>6, <1>7, <1>8, <1>9

LEMMA JumpFirstKeeps ==
  ASSUME NEW v \in Views, PagesExist
  PROVE  /\ Keeps(v, JumpFirst(v, IsSpread(v)))
         /\ JumpFirst(v, IsSpread(v)).mode = v.mode
<1> DEFINE w == JumpFirst(v, IsSpread(v))
<1>1. /\ w \in Views /\ w.mode = v.mode /\ w.base = 0
      /\ w.off = IF IsSpread(v) /\ v.off # 0 THEN -1 ELSE 0
  BY JumpFirstLands
<1> HIDE DEF w
<1>2. Good(w)
  BY <1>1 DEF PagesExist, Good, InFile, OnlyPage, Lo, IsSpread
<1> QED
  BY <1>1, <1>2 DEF Keeps, w

LEMMA JumpLastKeeps ==
  ASSUME NEW v \in Views, PagesExist
  PROVE  /\ Keeps(v, JumpLast(v, IsSpread(v)))
         /\ JumpLast(v, IsSpread(v)).mode = v.mode
<1> DEFINE w == JumpLast(v, IsSpread(v))
<1>1. /\ w \in Views /\ w.mode = v.mode
      /\ w.off = IF IsSpread(v) THEN v.off ELSE 0
      /\ total = 1 => w.base = 0
      /\ IF ~IsSpread(v) THEN w.base = total - 1
         ELSE IF total - 1 - v.off < 0 THEN w.base = 0
         ELSE /\ w.base \in Nat
              /\ w.base \in {total - 1 - v.off, total - 2 - v.off}
  BY JumpLastLands
<1> HIDE DEF w
<1>2. ASSUME Good(v) PROVE Good(w)
  <2>1. v.off \in -1 .. 1 /\ total \in Nat \ {0} /\ (total = 1 => v.off # 1)
    BY <1>2 DEF Good, OnlyPage, PagesExist, Views
  <2>2. CASE ~IsSpread(v)
    BY <1>1, <2>1, <2>2 DEF Good, InFile, OnlyPage, Lo, IsSpread
  <2>3. CASE IsSpread(v)
    <3>1. w.mode # "single" /\ w.off = v.off
      BY <1>1, <2>3 DEF IsSpread
    <3>2. CASE total - 1 - v.off < 0
      <4>1. total = 1 /\ v.off = 1
        BY <2>1, <3>2
      <4> QED
        BY <2>1, <4>1
    <3>3. CASE ~(total - 1 - v.off < 0)
      <4>1. /\ w.base \in Nat /\ w.base \in {total - 1 - v.off, total - 2 - v.off}
            /\ total = 1 => w.base = 0
        BY <1>1, <2>3, <3>3
      <4> QED
        BY <2>1, <3>1, <4>1 DEF Good, InFile, OnlyPage, Lo, IsSpread
    <3> QED
      BY <3>2, <3>3
  <2> QED
    BY <2>2, <2>3
<1> QED
  BY <1>1, <1>2 DEF Keeps, w

LEMMA SortedKeeps ==
  ASSUME NEW v \in Views, PagesExist
  PROVE  Keeps(v, Sorted(v))
<1> DEFINE first == [v EXCEPT !.base = 0]
<1>1. first \in Views /\ first.mode = v.mode /\ first.base = 0
  BY DEF Views
<1>2. Sorted(v) = ResetOffset(first)
  BY DEF Sorted
<1> HIDE DEF first
<1> DEFINE w == Sorted(v)
<1>3. w \in Views /\ w.off = 0 /\ w.base = 0
  BY <1>1, <1>2, ResetViews
<1> HIDE DEF w
<1>4. Good(w)
  BY <1>3 DEF PagesExist, Good, InFile, OnlyPage, Lo, IsSpread
<1> QED
  BY <1>3, <1>4 DEF Keeps, w

-------------------------------------------------------------------------------
(* A frame *)

LEMMA KeepsTwice ==
  ASSUME NEW u, NEW v, NEW w, Keeps(u, v), Keeps(v, w)
  PROVE  Keeps(u, w)
BY DEF Keeps

LEMMA SlideKeeps ==
  ASSUME view \in Views, PagesExist, NEW due \in BOOLEAN
  PROVE  Keeps(view, Slide(due))
<1>1. Keeps(view, view)
  BY DEF Keeps
<1> QED
  BY <1>1, AdvanceKeeps DEF Slide

LEMMA ClickedKeeps ==
  ASSUME NEW v \in Views, PagesExist, NEW c \in Clicks
  PROVE  Keeps(v, Clicked(v, c, IsSpread(v)))
<1>0. Keeps(v, v)
  BY DEF Keeps
<1>1. CASE c \in {"next", "prev"}
  BY <1>1, AdvanceKeeps, RetreatKeeps DEF Clicked, Modes
<1>2. CASE c \in {"first", "last"}
  BY <1>2, JumpFirstKeeps, JumpLastKeeps DEF Clicked, Modes
<1>3. CASE c = "cycleMode"
  <2>1. NextMode(v.mode) \in Modes
    BY DEF NextMode, Modes
  <2> QED
    BY <1>3, <2>1, SetModeKeeps DEF Clicked, Modes
<1>4. CASE c = "cycleOffset"
  BY <1>0, <1>4, CycleOffsetKeeps DEF Clicked, Modes
<1>5. CASE c \in Modes
  BY <1>5, SetModeKeeps DEF Clicked, Modes
<1>6. CASE c \in {"inc", "dec"}
  BY <1>0, <1>6, ShiftForwardKeeps, ShiftBackwardKeeps DEF Clicked, Modes
<1>7. CASE c = "sort"
  BY <1>0, <1>7, SortedKeeps DEF Clicked, Modes
<1>8. CASE c = "none"
  BY <1>0, <1>8 DEF Clicked, Modes
<1> QED
  BY <1>1, <1>2, <1>3, <1>4, <1>5, <1>6, <1>7, <1>8 DEF Clicks, Modes

\* The keys, when the mode is still the one they are read with.
LEMMA NavigatedKeeps ==
  ASSUME NEW v0 \in Views, PagesExist, NEW keys
  PROVE  Keeps(v0, Navigated(v0, keys, IsSpread(v0)))
<1> DEFINE spread == IsSpread(v0)
           v1 == If("komaNext" \in keys, Advance(v0, spread), v0)
           v2 == If("komaPrev" \in keys, Retreat(v1, spread), v1)
           v3 == If("next" \in keys, Advance(v2, spread), v2)
           v3p == If("prev" \in keys, Retreat(v3, spread), v3)
           v4 == MarkEnd(v3p, spread)
           v5 == If(spread /\ "inc" \in keys, ShiftForward(v4), v4)
           v6 == If(spread /\ "dec" \in keys, ShiftBackward(v5), v5)
           v7 == If(spread, MarkEnd(v6, spread), v6)
           v8 == If("home" \in keys, JumpFirst(v7, spread), v7)
           v9 == If("end" \in keys, JumpLast(v8, spread), v8)
           Same(w) == Keeps(v0, w) /\ w \in Views /\ w.mode = v0.mode
<1>0. /\ spread \in BOOLEAN
      /\ \A w : Same(w) => IsSpread(w) = spread
      /\ \A w, x : Same(w) /\ Keeps(w, x) /\ x.mode = w.mode => Same(x)
  BY DEF IsSpread, Keeps
<1>00. Same(v0)
  BY DEF Keeps
<1>1. Same(v1)
  BY <1>0, <1>00, AdvanceKeeps DEF If
<1> HIDE DEF v1
<1>2. Same(v2)
  BY <1>0, <1>1, RetreatKeeps DEF If
<1> HIDE DEF v2
<1>3. Same(v3)
  BY <1>0, <1>2, AdvanceKeeps DEF If
<1> HIDE DEF v3
<1>3p. Same(v3p)
  BY <1>0, <1>3, RetreatKeeps DEF If
<1> HIDE DEF v3p
<1>4. Same(v4)
  BY <1>0, <1>3p, MarkEndKeeps
<1> HIDE DEF v4
<1>5. Same(v5)
  BY <1>0, <1>4, ShiftForwardKeeps DEF If
<1> HIDE DEF v5
<1>6. Same(v6)
  BY <1>0, <1>5, ShiftBackwardKeeps DEF If
<1> HIDE DEF v6
<1>7. Same(v7)
  BY <1>0, <1>6, MarkEndKeeps DEF If
<1> HIDE DEF v7
<1>8. Same(v8)
  BY <1>0, <1>7, JumpFirstKeeps DEF If
<1> HIDE DEF v8
<1>9. Same(v9)
  BY <1>0, <1>8, JumpLastKeeps DEF If
<1>10. Navigated(v0, keys, spread) = v9
  BY DEF Navigated, v1, v2, v3, v3p, v4, v5, v6, v7, v8
<1> QED
  BY <1>9, <1>10

\* Without a key only the mark of the last pair changes, whatever the mode was.
LEMMA IdleKeeps ==
  ASSUME NEW v \in Views, PagesExist, NEW spread \in BOOLEAN
  PROVE  Keeps(v, Navigated(v, {}, spread))
<1> DEFINE u == MarkEnd(v, spread)
<1>1. Keeps(v, u) /\ u \in Views
  BY MarkEndKeeps, MarkEndLands
<1>2. Keeps(u, MarkEnd(u, spread))
  BY <1>1, MarkEndKeeps
<1>3. Navigated(v, {}, spread) = IF spread THEN MarkEnd(u, spread) ELSE u
  BY DEF Navigated, If
<1> QED
  BY <1>1, <1>2, <1>3, KeepsTwice

\* Whatever mode the keys are read with, a view comes out: the places differ by one page
\* or two, and the offset stays between -1 and 1.
LEMMA MovesLand ==
  ASSUME NEW v \in Views, PagesExist, NEW spread \in BOOLEAN
  PROVE  /\ Advance(v, spread) \in Views /\ Retreat(v, spread) \in Views
         /\ MarkEnd(v, spread) \in Views
         /\ ShiftForward(v) \in Views /\ ShiftBackward(v) \in Views
<1>1. Step(spread) \in Int
  BY DEF Step
<1>2. Advance(v, spread) \in Views /\ Retreat(v, spread) \in Views
  BY <1>1 DEF Advance, Retreat, Views
<1>3. MarkEnd(v, spread) \in Views
  BY MarkEndLands
<1>4. ShiftForward(v) \in Views /\ ShiftBackward(v) \in Views
  BY DEF ShiftForward, CanShiftForward, ShiftBackward, CanShiftBackward, Views
<1> QED
  BY <1>2, <1>3, <1>4

LEMMA JumpsLand ==
  ASSUME NEW v \in Views, PagesExist, NEW spread \in BOOLEAN
  PROVE  JumpFirst(v, spread) \in Views /\ JumpLast(v, spread) \in Views
<1>1. JumpFirst(v, spread) \in Views
  <2> DEFINE first == [v EXCEPT !.base = 0]
  <2>1. first \in Views
    BY DEF Views
  <2>2. ResetOffset(first) \in Views
    BY <2>1, ResetViews
  <2>3. VirtualLeft(first) \in Views
    <3> HIDE DEF first
    <3> QED
      BY <2>1 DEF VirtualLeft, Views
  <2> QED
    BY <2>1, <2>2, <2>3, MarkEndLands DEF JumpFirst
<1>2. JumpLast(v, spread) \in Views
  <2> DEFINE target == total - 1 - v.off
             half == (target \div 2) * 2
             pair == [v EXCEPT !.base = IF target >= 0 THEN half ELSE 0]
             last == [v EXCEPT !.base = total - 1]
  <2>1. target \in Int
    BY DEF PagesExist, Views
  <2>2. target >= 0 => half \in Nat
    <3> HIDE DEF target
    <3> QED
      BY <2>1, LastPair
  <2>3. pair \in Views
    <3> HIDE DEF half, target
    <3> QED
      BY <2>2 DEF Views
  <2>4. last \in Views
    BY DEF PagesExist, Views
  <2>5. ResetOffset(last) \in Views
    BY <2>4, ResetViews
  <2>6. JumpLast(v, spread) = MarkEnd(IF spread THEN pair ELSE ResetOffset(last), spread)
    BY DEF JumpLast
  <2> HIDE DEF pair, last
  <2> QED
    BY <2>3, <2>5, <2>6, MarkEndLands
<1> QED
  BY <1>1, <1>2

LEMMA NavigatedLands ==
  ASSUME NEW v0 \in Views, PagesExist, NEW keys, NEW spread \in BOOLEAN
  PROVE  Navigated(v0, keys, spread) \in Views
<1> DEFINE v1 == If("komaNext" \in keys, Advance(v0, spread), v0)
           v2 == If("komaPrev" \in keys, Retreat(v1, spread), v1)
           v3 == If("next" \in keys, Advance(v2, spread), v2)
           v3p == If("prev" \in keys, Retreat(v3, spread), v3)
           v4 == MarkEnd(v3p, spread)
           v5 == If(spread /\ "inc" \in keys, ShiftForward(v4), v4)
           v6 == If(spread /\ "dec" \in keys, ShiftBackward(v5), v5)
           v7 == If(spread, MarkEnd(v6, spread), v6)
           v8 == If("home" \in keys, JumpFirst(v7, spread), v7)
           v9 == If("end" \in keys, JumpLast(v8, spread), v8)
<1>1. v1 \in Views
  BY MovesLand DEF If
<1> HIDE DEF v1
<1>2. v2 \in Views
  BY <1>1, MovesLand DEF If
<1> HIDE DEF v2
<1>3. v3 \in Views
  BY <1>2, MovesLand DEF If
<1> HIDE DEF v3
<1>3p. v3p \in Views
  BY <1>3, MovesLand DEF If
<1> HIDE DEF v3p
<1>4. v4 \in Views
  BY <1>3p, MovesLand
<1> HIDE DEF v4
<1>5. v5 \in Views
  BY <1>4, MovesLand DEF If
<1> HIDE DEF v5
<1>6. v6 \in Views
  BY <1>5, MovesLand DEF If
<1> HIDE DEF v6
<1>7. v7 \in Views
  BY <1>6, MovesLand DEF If
<1> HIDE DEF v7
<1>8. v8 \in Views
  BY <1>7, JumpsLand DEF If
<1> HIDE DEF v8
<1>9. v9 \in Views
  BY <1>8, JumpsLand DEF If
<1>10. Navigated(v0, keys, spread) = v9
  BY DEF Navigated, v1, v2, v3, v3p, v4, v5, v6, v7, v8
<1> QED
  BY <1>9, <1>10

-------------------------------------------------------------------------------
(* The invariant *)

TurningInv ==
  /\ total \in Totals /\ raw \in BOOLEAN /\ torn \in BOOLEAN
  /\ view \in Views
  /\ ~torn => Good(view)

\* A fresh view, and one a bookmark has moved, begin inside the file.
LEMMA OpenKeeps ==
  ASSUME Open
  PROVE  TurningInv'
<1>1. total' \in Totals /\ raw' \in BOOLEAN /\ torn' = FALSE /\ total' \in Nat \ {0}
  BY TotalsAssumption DEF Open
<1>2. PICK m \in Modes, shifted \in BOOLEAN :
        LET v == Restored(m, shifted)
        IN  view' = v \/ \E n \in 0 .. total' - 1 : view' = Bookmarked(v, n)
  BY DEF Open
<1> DEFINE v == Restored(m, shifted)
<1>3. /\ v \in Views /\ v.base = 0 /\ v.off \in {-1, 0}
      /\ v.mode = "single" => v.off = 0
  <2>1. CASE raw' \/ m = "single"
    BY <2>1 DEF Restored, Fresh, Views, Modes
  <2>2. CASE ~(raw' \/ m = "single")
    <3> DEFINE off == IF shifted THEN -1 ELSE 0
    <3>1. v = [mode |-> m, base |-> 0, off |-> off, right |-> FALSE, back |-> TRUE]
      BY <2>2 DEF Restored, Fresh
    <3>2. off \in {-1, 0}
      OBVIOUS
    <3> HIDE DEF v, off
    <3> QED
      BY <2>2, <3>1, <3>2 DEF Views
  <2> QED
    BY <2>1, <2>2
<1> HIDE DEF v
<1>4. CASE view' = v
  <2>1. Good(view)'
    BY <1>1, <1>3, <1>4 DEF Good, InFile, OnlyPage, Lo, IsSpread
  <2> QED
    BY <1>1, <1>3, <1>4, <2>1 DEF TurningInv
<1> DEFINE t == total'
<1>t. t \in Nat \ {0}
  BY <1>1
<1> HIDE DEF t
<1>5. ASSUME NEW n \in 0 .. t - 1, view' = Bookmarked(v, n)
      PROVE  TurningInv'
  <2> DEFINE at == [v EXCEPT !.base = n]
  <2>1. at \in Views /\ at.base = n
    BY <1>3 DEF Views
  <2>2. view' = ResetOffset(at)
    BY <1>5 DEF Bookmarked
  <2> HIDE DEF at
  <2>3. view' \in Views /\ view'.off = 0 /\ view'.base = n
    BY <2>1, <2>2, ResetViews
  <2>4. Good(view)'
    <3>1. n \in Int /\ 0 <= n /\ n <= t - 1
      BY <1>t
    <3>2. Lo(view)' = n
      BY <2>3, <3>1 DEF Lo
    <3>3. InFile(view)'
      <4>1. Lo(view)' >= (IF IsSpread(view)' THEN -1 ELSE 0)
        BY <3>1, <3>2
      <4>2. Lo(view)' <= t - 1
        BY <3>1, <3>2
      <4> QED
        BY <4>1, <4>2 DEF InFile, t
    <3>4. OnlyPage(view)'
      <4>1. t = 1 => n = 0
        BY <3>1
      <4> QED
        BY <2>3, <4>1 DEF OnlyPage, t
    <3> QED
      BY <3>3, <3>4 DEF Good
  <2> QED
    BY <1>1, <2>3, <2>4 DEF TurningInv
<1> QED
  BY <1>2, <1>4, <1>5 DEF v, t

\* What keeps the view keeps the invariant, as long as the file stays.
LEMMA KeptView ==
  ASSUME TurningInv, total' = total, raw' = raw, torn' \in BOOLEAN, view' \in Views,
         ~torn' => ~torn /\ Keeps(view, view')
  PROVE  TurningInv'
BY DEF TurningInv, Keeps, Good, InFile, OnlyPage, Lo, IsSpread

LEMMA FrameKeeps ==
  ASSUME TurningInv,
         NEW due \in BOOLEAN, NEW m \in Modes \cup {"none"}, NEW c \in Clicks, NEW keys,
         Frame(due, m, c, keys)
  PROVE  TurningInv'
<1> DEFINE slid   == Slide(due)
           chosen == IF m = "none" THEN slid ELSE SetMode(slid, m)
           spread == IsSpread(chosen)
           after  == Clicked(chosen, c, spread)
<1>1. /\ view' = Navigated(after, keys, spread)
      /\ torn' = (torn \/ (keys # {} /\ IsSpread(after) # spread))
      /\ total' = total /\ raw' = raw
  BY DEF Frame
<1>2. torn' \in BOOLEAN
  BY <1>1
<1>3. PagesExist /\ view \in Views
  BY TotalsAssumption DEF TurningInv, PagesExist
<1>4. Keeps(view, slid) /\ slid \in Views
  BY <1>3, SlideKeeps DEF Keeps
<1> HIDE DEF slid
<1>5. Keeps(view, chosen) /\ chosen \in Views
  BY <1>3, <1>4, SetModeKeeps, KeepsTwice DEF Keeps
<1> HIDE DEF chosen
<1>6. Keeps(view, after) /\ after \in Views
  BY <1>3, <1>5, ClickedKeeps, KeepsTwice DEF Keeps
<1>7. spread \in BOOLEAN
  BY DEF IsSpread
<1> HIDE DEF after, spread
<1>8. view' \in Views
  BY <1>1, <1>3, <1>6, <1>7, NavigatedLands
<1>9. ASSUME ~torn' PROVE ~torn /\ Keeps(view, view')
  <2>1. ~torn /\ (keys = {} \/ IsSpread(after) = spread)
    BY <1>1, <1>9
  <2>2. Keeps(after, Navigated(after, keys, spread))
    BY <1>3, <1>6, <1>7, <2>1, IdleKeeps, NavigatedKeeps
  <2> QED
    BY <1>1, <1>6, <2>1, <2>2, KeepsTwice
<1> QED
  BY <1>1, <1>2, <1>8, <1>9, KeptView

LEMMA TranslationKeeps ==
  ASSUME TurningInv, NEW forward \in BOOLEAN,
         TurnFromTranslation(forward)
  PROVE  TurningInv'
<1> DEFINE spread == IsSpread(view)
           turned == IF forward THEN Advance(view, spread) ELSE Retreat(view, spread)
<1>1. /\ view' = MarkEnd(turned, spread)
      /\ total' = total /\ raw' = raw /\ torn' = torn
  BY DEF TurnFromTranslation
<1>2. Keeps(view, view')
  <2>1. PagesExist /\ view \in Views /\ spread \in BOOLEAN
    BY TotalsAssumption DEF TurningInv, PagesExist, IsSpread
  <2>2. Keeps(view, turned) /\ turned \in Views
    BY <2>1, AdvanceKeeps, RetreatKeeps DEF Keeps
  <2> HIDE DEF turned, spread
  <2> QED
    BY <1>1, <2>1, <2>2, MarkEndKeeps, KeepsTwice
<1> QED
  BY <1>1, <1>2, KeptView DEF TurningInv, Keeps

LEMMA TurningInvariance == TurningSpec => []TurningInv
<1>1. TurningInit => TurningInv
  <2> SUFFICES ASSUME TurningInit PROVE TurningInv
    OBVIOUS
  <2>1. /\ total \in Totals /\ total \in Nat \ {0} /\ raw \in BOOLEAN /\ torn = FALSE
    BY TotalsAssumption DEF TurningInit
  <2>2. view \in Views /\ view.mode = "single" /\ view.base = 0 /\ view.off = 0
    BY DEF TurningInit, Fresh, Views, Modes
  <2>3. Good(view)
    BY <2>1, <2>2 DEF Good, InFile, OnlyPage, Lo, IsSpread
  <2> QED
    BY <2>1, <2>2, <2>3 DEF TurningInv
<1>2. TurningInv /\ [TurningNext]_turningVars => TurningInv'
  <2> SUFFICES ASSUME TurningInv, [TurningNext]_turningVars PROVE TurningInv'
    OBVIOUS
  <2>1. CASE UNCHANGED turningVars
    BY <2>1 DEF turningVars, TurningInv, Good, InFile, OnlyPage, Lo, IsSpread
  <2>2. CASE Open
    BY <2>2, OpenKeeps
  <2>3. ASSUME NEW forward \in BOOLEAN, TurnFromTranslation(forward) PROVE TurningInv'
    BY <2>3, TranslationKeeps
  <2>4. ASSUME NEW due \in BOOLEAN, NEW m \in Modes \cup {"none"}, NEW c \in Clicks,
               NEW keys \in {K \in SUBSET Keys : Cardinality(K) <= MaxKeys},
               Frame(due, m, c, keys)
        PROVE  TurningInv'
    BY <2>4, FrameKeeps
  <2> QED
    BY <2>1, <2>2, <2>3, <2>4 DEF TurningNext
<1> QED
  BY <1>1, <1>2, PTL DEF TurningSpec

-------------------------------------------------------------------------------
SlidesOK == slides \in BOOLEAN

\* A view is a view in every frame, also in one whose click changed the mode under its
\* keys: base and offset stay numbers that the next frame can go on from.
THEOREM TurningTypeCorrect == TurningSpec => []TurningTypeOK
<1>1. TurningInit => SlidesOK
  BY DEF TurningInit, SlidesOK
<1>2. SlidesOK /\ [TurningNext]_turningVars => SlidesOK'
  <2> SUFFICES ASSUME SlidesOK, [TurningNext]_turningVars PROVE SlidesOK'
    OBVIOUS
  <2>1. CASE UNCHANGED turningVars
    BY <2>1 DEF turningVars, SlidesOK
  <2>2. CASE Open
    BY <2>2 DEF Open, SlidesOK
  <2>3. ASSUME NEW forward \in BOOLEAN, TurnFromTranslation(forward) PROVE SlidesOK'
    BY <2>3 DEF TurnFromTranslation, SlidesOK
  <2>4. ASSUME NEW due \in BOOLEAN, NEW m, NEW c, NEW keys, Frame(due, m, c, keys)
        PROVE  SlidesOK'
    BY <2>4 DEF Frame, SlidesOK
  <2> QED
    BY <2>1, <2>2, <2>3, <2>4 DEF TurningNext
<1>3. TurningInv /\ SlidesOK => TurningTypeOK
  BY DEF TurningInv, TurningTypeOK, SlidesOK
<1> QED
  BY <1>1, <1>2, <1>3, TurningInvariance, PTL DEF TurningSpec

\* A page of the file is on the screen, whatever is pressed in whatever order, for files
\* of any length and any number of keys in a frame - while no click changes the mode
\* under the keys of its frame.
THEOREM PageIsShown == TurningSpec => []PageShown
<1>1. TurningInv => PageShown
  <2> SUFFICES ASSUME TurningInv, ~torn PROVE Shown(view) # {}
    BY DEF PageShown
  <2>1. /\ total \in Nat \ {0} /\ view.base \in Int /\ view.off \in -1 .. 1
        /\ Good(view)
    BY TotalsAssumption DEF TurningInv, Views
  <2>2. CASE IsSpread(view)
    <3>1. Lo(view) \in 0 .. total - 1 \/ Lo(view) + 1 \in 0 .. total - 1
      BY <2>1, <2>2 DEF Good, InFile, Lo
    <3> QED
      BY <2>2, <3>1 DEF Shown
  <2>3. CASE ~IsSpread(view)
    BY <2>1, <2>3 DEF Good, InFile, Shown, Lo
  <2> QED
    BY <2>2, <2>3
<1> QED
  BY <1>1, TurningInvariance, PTL

\* Home reaches the first page and End the last one, and the first page on the screen
\* stays there when the mode changes, for files of any length and with any offset.
THEOREM HomeAndEndReach == TurningSpec => []JumpsReach
<1>1. TurningInv => JumpsReach
  <2> SUFFICES ASSUME TurningInv, ~torn
               PROVE  /\ 0 \in Shown(JumpFirst(view, IsSpread(view)))
                      /\ total - 1 \in Shown(JumpLast(view, IsSpread(view)))
                      /\ \A m \in Modes : FirstReal(view) \in Shown(SetMode(view, m))
    BY DEF JumpsReach
  <2>1. PagesExist /\ view \in Views /\ total \in Nat \ {0} /\ Good(view)
    BY TotalsAssumption DEF TurningInv, PagesExist
  <2>2. view.base \in Int /\ view.off \in -1 .. 1
    BY <2>1 DEF Views
  <2>3. 0 \in Shown(JumpFirst(view, IsSpread(view)))
    <3> DEFINE w == JumpFirst(view, IsSpread(view))
    <3>1. /\ w \in Views /\ w.mode = view.mode /\ w.base = 0
          /\ w.off = IF IsSpread(view) /\ view.off # 0 THEN -1 ELSE 0
      BY <2>1, JumpFirstLands
    <3> HIDE DEF w
    <3>2. 0 \in Shown(w)
      BY <2>1, <3>1 DEF Shown, Lo, IsSpread
    <3> QED
      BY <3>2 DEF w
  <2>4. total - 1 \in Shown(JumpLast(view, IsSpread(view)))
    <3> DEFINE w == JumpLast(view, IsSpread(view))
    <3>1. /\ w \in Views /\ w.mode = view.mode
          /\ w.off = IF IsSpread(view) THEN view.off ELSE 0
          /\ IF ~IsSpread(view) THEN w.base = total - 1
             ELSE IF total - 1 - view.off < 0 THEN w.base = 0
             ELSE /\ w.base \in Nat
                  /\ w.base \in {total - 1 - view.off, total - 2 - view.off}
      BY <2>1, JumpLastLands
    <3> HIDE DEF w
    <3>2. IsSpread(w) = IsSpread(view)
      BY <3>1 DEF IsSpread
    <3> SUFFICES total - 1 \in Shown(w)
      BY DEF w
    <3>3. CASE ~IsSpread(view)
      BY <2>1, <3>1, <3>2, <3>3 DEF Shown, Lo
    <3>4. CASE IsSpread(view) /\ total - 1 - view.off < 0
      <4>1. total = 1 /\ view.off = 1
        BY <2>1, <2>2, <3>4
      <4> QED
        BY <2>1, <4>1 DEF Good, OnlyPage
    <3>5. CASE IsSpread(view) /\ ~(total - 1 - view.off < 0)
      <4>1. Lo(w) = total - 1 \/ Lo(w) + 1 = total - 1
        BY <2>1, <2>2, <3>1, <3>5 DEF Lo
      <4> QED
        BY <2>1, <3>2, <3>5, <4>1 DEF Shown
    <3> QED
      BY <3>3, <3>4, <3>5
  <2>5. ASSUME NEW m \in Modes PROVE FirstReal(view) \in Shown(SetMode(view, m))
    <3> DEFINE w == SetMode(view, m)
               n == FirstReal(view)
    <3>1. n \in 0 .. total - 1 /\ n \in Nat
      BY <2>1, <2>2 DEF FirstReal, Good, InFile, Lo
    <3>2. n \in {Lo(view), Lo(view) + 1} /\ (~IsSpread(view) => n = Lo(view))
      BY <2>1, <2>2 DEF FirstReal, Good, InFile, Lo
    <3>3. CASE w = view
      BY <3>1, <3>2, <3>3 DEF Shown
    <3>4. CASE /\ w.off = 0 /\ w.mode = m
               /\ w.base = IF m = "single" THEN n ELSE 2 * (n \div 2)
      <4> HIDE DEF n, w
      <4>1. CASE m = "single"
        <5>1. Lo(w) = n
          BY <3>1, <3>4, <4>1 DEF Lo
        <5> QED
          BY <3>1, <5>1 DEF Shown, n, w
      <4>2. CASE m # "single"
        <5>1. Lo(w) = n \/ Lo(w) + 1 = n
          BY <3>1, <3>4, <4>2, PairOf DEF Lo
        <5>2. IsSpread(w)
          BY <3>4, <4>2 DEF IsSpread
        <5> QED
          BY <3>1, <5>1, <5>2 DEF Shown, n, w
      <4> QED
        BY <4>1, <4>2
    <3> QED
      BY <2>1, <3>3, <3>4, SetModeLands
  <2> QED
    BY <2>3, <2>4, <2>5
<1> QED
  BY <1>1, TurningInvariance, PTL

-------------------------------------------------------------------------------
(* The four parts side by side *)

allVars == <<part, pagesVars, filesVars, turningVars, thumbVars>>

\* A behaviour in which one part of the viewer moves while the others keep still is one of
\* the pipeline, of the file cache, of the pages in view and of the thumbnails, so what is
\* checked or proved of any of them holds of it.
THEOREM PartsSideBySide == MCSpec => PagesSpec /\ FilesSpec /\ TurningSpec /\ ThumbSpec
<1>1. MCInit => PagesInit /\ FilesInit /\ TurningInit /\ ThumbInit
  BY DEF MCInit
<1>2. [MCNext]_allVars => /\ [PagesNext]_pagesVars /\ [FilesNext]_filesVars
                          /\ [TurningNext]_turningVars /\ [ThumbNext]_thumbVars
  BY DEF allVars, MCNext, Loading, Opening, Turning, Thumbs
<1> QED
  BY <1>1, <1>2, PTL DEF MCSpec, allVars, PagesSpec, FilesSpec, TurningSpec, ThumbSpec

PartIsKnown == part \in Parts

\* Every variable of the viewer keeps its type, whichever part moves.
THEOREM ViewerTypeCorrect == MCSpec => []TypesOK
<1>1. MCInit => PartIsKnown
  BY DEF MCInit, PartIsKnown
<1>2. PartIsKnown /\ [MCNext]_allVars => PartIsKnown'
  BY DEF allVars, PartIsKnown, MCNext, Loading, Opening, Turning, Thumbs
<1>3. PartIsKnown /\ PagesTypeOK /\ FilesTypeOK /\ TurningTypeOK /\ ThumbTypeOK => TypesOK
  BY DEF PartIsKnown, Parts, TypesOK
<1>4. ThumbSpec => []ThumbTypeOK
  BY TypeCorrect, InstanceAssumption
<1> QED
  BY <1>1, <1>2, <1>3, <1>4, PartsSideBySide, PagesTypeCorrect, FilesTypeCorrect,
     TurningTypeCorrect, PTL DEF MCSpec, allVars

================================================================================
