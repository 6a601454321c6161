------------------------- MODULE ThumbGenerationProofs -------------------------
(***************************************************************************)
(* The claims on a thumbnail's row, for any number of requests under way at  *)
(* once, any settings, any pages and any number of edits, moves, restarts     *)
(* and changes of folder.  Nothing about a claim's exclusiveness is needed:     *)
(* what counts is that whoever ends a claim he still holds also ends the         *)
(* state `processing', and that the token tells him whether he does.              *)
(***************************************************************************)
EXTENDS ThumbGeneration, TLAPS

Rows == [status : Statuses, token : Nat, profile : Profiles \cup {NoProfile},
         mtime : Mtimes, want : Picks]
Stored == [mtime : -1 .. MaxMtime, profile : Profiles \cup {NoProfile},
           source : Picks, content : -1 .. MaxMtime]

\* The stamp a picture will be stored with is no younger than what is read for it.
StampsBehind ==
  \A id \in Ids :
    /\ req[id].at = "reading" => req[id].stamp <= mtime
    /\ req[id].at = "made" => req[id].stamp <= req[id].content

-------------------------------------------------------------------------------
(* Rows *)

LEMMA Types ==
  ASSUME ThumbTypeOK, ThumbAssumption
  PROVE  /\ row \in Rows /\ thumb \in Stored /\ mtime \in Nat /\ mtime \in Mtimes
         /\ mtime # 0 /\ StatOf \subseteq Mtimes /\ \A m \in StatOf : m <= mtime
BY DEF ThumbTypeOK, Rows, Stored, Mtimes, StatOf, ThumbAssumption

LEMMA DisruptTyped ==
  ASSUME ThumbTypeOK, ThumbAssumption, Disrupt
  PROVE  changes' \in 0 .. MaxChanges
BY DEF ThumbTypeOK, ThumbAssumption, Disrupt

LEMMA RestRow ==
  ASSUME row \in Rows
  PROVE  /\ AtRest \in {"missing", "stale"}
         /\ [row EXCEPT !.status = AtRest] \in Rows
         /\ [row EXCEPT !.status = AtRest].status = AtRest
<1>1. AtRest \in {"missing", "stale"} /\ AtRest \in Statuses
  BY DEF AtRest, Statuses
<1> QED
  BY <1>1 DEF Rows

\* Giving a claim back leaves `processing' only to somebody else's claim.
LEMMA FailRowLands ==
  ASSUME row \in Rows, NEW r
  PROVE  /\ FailRow(r) \in Rows
         /\ FailRow(r).status = "processing" => FailRow(r) = row /\ row.token # r.token
         /\ FailRow(r).status = "current" => FailRow(r) = row
<1>1. CASE row.status = "processing" /\ row.token = r.token
  BY <1>1, RestRow DEF FailRow
<1>2. CASE ~(row.status = "processing" /\ row.token = r.token)
  BY <1>2 DEF FailRow
<1> QED
  BY <1>1, <1>2

LEMMA InvalidateRowLands ==
  ASSUME row \in Rows, NEW p
  PROVE  /\ InvalidateRow(p) \in Rows
         /\ InvalidateRow(p).status \in {"processing", "current"} => InvalidateRow(p) = row
<1>1. CASE row.status = "processing" /\ row.profile # p
  <2>1. AtRest \in {"missing", "stale"} /\ [row EXCEPT !.status = AtRest] \in Rows
    BY RestRow
  <2>2. InvalidateRow(p) = [status |-> AtRest, token |-> row.token + 1,
                            profile |-> row.profile, mtime |-> row.mtime, want |-> row.want]
    BY <1>1 DEF InvalidateRow, Rows
  <2> QED
    BY <2>1, <2>2 DEF Rows, Statuses
<1>2. CASE ~(row.status = "processing" /\ row.profile # p)
  BY <1>2 DEF InvalidateRow
<1> QED
  BY <1>1, <1>2

LEMMA ResetRowLands ==
  ASSUME ThumbAssumption, row \in Rows, NEW s \in Picks
  PROVE  ResetRow(s) \in Rows /\ ResetRow(s).status \in {"missing", "stale"}
<1>1. AtRest \in {"missing", "stale"}
  BY RestRow
<1>2. 0 \in Mtimes
  BY DEF ThumbAssumption, Mtimes
<1> QED
  BY <1>1, <1>2 DEF ResetRow, Rows, Statuses

LEMMA RecoverRowLands ==
  ASSUME row \in Rows
  PROVE  /\ RecoverRow \in Rows /\ RecoverRow.status # "processing"
         /\ RecoverRow.status = "current" => RecoverRow = row
<1>1. CASE row.status = "processing"
  BY <1>1, RestRow DEF RecoverRow
<1>2. CASE row.status # "processing"
  BY <1>2 DEF RecoverRow
<1> QED
  BY <1>1, <1>2

-------------------------------------------------------------------------------
(* Requests *)

LEMMA RequestIs ==
  ASSUME ThumbTypeOK, NEW id \in Ids, req[id].at # "free"
  PROVE  req[id] \in Requests
BY DEF ThumbTypeOK, Free

\* A request with two or three fields changed is a request.
LEMMA Probed ==
  ASSUME NEW x \in Requests, NEW had \in BOOLEAN, NEW m \in Mtimes
  PROVE  LET r == [x EXCEPT !.at = "probed", !.had = had, !.stamp = m]
         IN  r \in Requests /\ r.at = "probed"
BY DEF Requests, Stages

LEMMA Claimed ==
  ASSUME NEW x \in Requests, NEW token \in Nat
  PROVE  LET r == [x EXCEPT !.at = "claimed", !.token = token]
         IN  /\ r \in Requests /\ r.at = "claimed" /\ r.token = token
             /\ r.profile = x.profile /\ r.source = x.source /\ r.stamp = x.stamp
BY DEF Requests, Stages

LEMMA Stamped ==
  ASSUME NEW x \in Requests, NEW m \in Mtimes
  PROVE  LET r == [x EXCEPT !.at = "reading", !.stamp = m]
         IN  /\ r \in Requests /\ r.at = "reading" /\ r.stamp = m
             /\ r.profile = x.profile /\ r.source = x.source /\ r.token = x.token
BY DEF Requests, Stages

LEMMA ReqUpdate ==
  ASSUME ThumbTypeOK, NEW id \in Ids, NEW r \in Requests \cup {Free},
         req' = [req EXCEPT ![id] = r]
  PROVE  /\ req' \in [Ids -> Requests \cup {Free}]
         /\ req'[id] = r /\ \A j \in Ids \ {id} : req'[j] = req[j]
BY DEF ThumbTypeOK

LEMMA NewIsRequest ==
  ASSUME ThumbTypeOK, ThumbAssumption, NEW s \in Picks
  PROVE  /\ NewRequest(session, profile, s) \in Requests
         /\ NewRequest(session, profile, s).at = "queued"
<1>1. 0 \in Mtimes
  BY DEF ThumbAssumption, Mtimes
<1> QED
  BY <1>1 DEF NewRequest, ThumbTypeOK, Requests, Stages, Picks

LEMMA AnswerTyped ==
  ASSUME ThumbTypeOK, NEW r \in Requests, NEW stage \in {"preview", "complete"},
         NEW image \in BOOLEAN, NEW fail \in BOOLEAN, Answer(r, stage, image, fail)
  PROVE  results' \in Seq(Results)
<1> DEFINE a == [stage |-> stage, session |-> r.session, profile |-> r.profile,
                 source |-> r.source, image |-> image, failed |-> fail]
<1>1. a \in Results
  BY DEF Results, Requests
<1>2. results' = Append(results, a) /\ results \in Seq(Results)
  BY DEF Answer, ThumbTypeOK
<1> HIDE DEF a
<1> QED
  BY <1>1, <1>2

-------------------------------------------------------------------------------
(* The invariant *)

IInv == ThumbTypeOK /\ ProcessingIsOwned /\ CurrentIsTrue /\ StampNotAhead /\ StampsBehind

\* One request changes, the row does not, and who held the claim holds it.
LEMMA ClaimStays ==
  ASSUME ProcessingIsOwned, row' = row, NEW id \in Ids,
         \A j \in Ids \ {id} : req'[j] = req[j],
         HoldsClaim(req[id]) => HoldsClaim(req[id])'
  PROVE  ProcessingIsOwned'
<1> SUFFICES ASSUME row.status = "processing"
             PROVE  \E j \in Ids : HoldsClaim(req[j])'
  BY DEF ProcessingIsOwned
<1>1. PICK j \in Ids : HoldsClaim(req[j])
  BY DEF ProcessingIsOwned
<1>2. CASE j = id
  BY <1>1, <1>2
<1>3. CASE j # id
  BY <1>1, <1>3 DEF HoldsClaim
<1> QED
  BY <1>2, <1>3

\* A request ends and gives its claim back, if it is the standing one.
LEMMA ClaimGivenBack ==
  ASSUME ThumbTypeOK, ThumbAssumption, ProcessingIsOwned, NEW id \in Ids,
         row' = FailRow(req[id]), \A j \in Ids \ {id} : req'[j] = req[j]
  PROVE  ProcessingIsOwned'
<1> SUFFICES ASSUME row'.status = "processing"
             PROVE  \E j \in Ids : HoldsClaim(req[j])'
  BY DEF ProcessingIsOwned
<1>1. row' = row /\ row.token # req[id].token
  BY Types, FailRowLands
<1>2. PICK j \in Ids : HoldsClaim(req[j])
  BY <1>1 DEF ProcessingIsOwned
<1>3. j # id
  BY <1>1, <1>2 DEF HoldsClaim
<1> QED
  BY <1>1, <1>2, <1>3 DEF HoldsClaim

\* The stored picture stays and the row does not become current.
LEMMA PictureStays ==
  ASSUME CurrentIsTrue, StampNotAhead, thumb' = thumb,
         row'.status = "current" => row' = row
  PROVE  CurrentIsTrue' /\ StampNotAhead'
BY DEF CurrentIsTrue, StampNotAhead

\* One request changes: only its own stamp has to be looked at.
LEMMA StampsStay ==
  ASSUME StampsBehind, mtime' = mtime, NEW id \in Ids,
         \A j \in Ids \ {id} : req'[j] = req[j],
         req'[id].at = "reading" => req'[id].stamp <= mtime,
         req'[id].at = "made" => req'[id].stamp <= req'[id].content
  PROVE  StampsBehind'
BY DEF StampsBehind

-------------------------------------------------------------------------------
(* The steps that leave the requests alone *)

LEMMA QuietKeeps ==
  ASSUME IInv, ThumbAssumption, Reenter \/ OpenBook \/ Poll \/ Edit
  PROVE  IInv'
<1> USE DEF IInv
<1>1. row' = row /\ thumb' = thumb /\ req' = req
  BY DEF Reenter, OpenBook, Poll, Edit, db, wire
<1>2. mtime \in Nat /\ mtime' \in 1 .. MaxMtime /\ mtime <= mtime'
  BY Types DEF Reenter, OpenBook, Poll, Edit, file, ThumbTypeOK, ThumbAssumption
<1>3. ProcessingIsOwned' /\ CurrentIsTrue' /\ StampNotAhead'
  BY <1>1 DEF ProcessingIsOwned, HoldsClaim, CurrentIsTrue, StampNotAhead
<1>4. StampsBehind'
  <2> SUFFICES ASSUME NEW id \in Ids, req[id].at \in {"reading", "made"}
               PROVE  /\ req[id].at = "reading" => req[id].stamp <= mtime'
                      /\ req[id].at = "made" => req[id].stamp <= req[id].content
    BY <1>1 DEF StampsBehind
  <2>1. req[id] \in Requests
    BY RequestIs
  <2>2. req[id].stamp \in Nat
    BY <2>1 DEF Requests, Mtimes
  <2> QED
    BY <1>2, <2>2 DEF StampsBehind, ThumbAssumption
<1>5. ThumbTypeOK'
  <2>1. CASE Reenter
    <3>1. changes' \in 0 .. MaxChanges
      BY <2>1, DisruptTyped DEF Reenter
    <3>2. session' \in Nat
      BY <2>1 DEF Reenter, ThumbTypeOK
    <3>3. /\ present' = present /\ results' = results /\ profile' = profile
          /\ selection' = selection /\ pending' = FALSE /\ failed' = FALSE
          /\ shown' = FALSE /\ forgotten' = FALSE
      BY <2>1 DEF Reenter, file, wire
    <3> QED
      BY <1>1, <1>2, <3>1, <3>2, <3>3 DEF ThumbTypeOK
  <2>2. CASE OpenBook
    BY <1>1, <1>2, <2>2 DEF OpenBook, ThumbTypeOK, file, wire, Picks
  <2>3. CASE Poll
    <3>1. results' \in Seq(Results)
      BY <2>3 DEF Poll, ThumbTypeOK
    <3>2. /\ (pending' \in BOOLEAN) /\ (shown' \in BOOLEAN) /\ (failed' \in BOOLEAN)
      BY <2>3 DEF Poll
    <3> QED
      BY <1>1, <1>2, <2>3, <3>1, <3>2 DEF Poll, ThumbTypeOK, file
  <2>4. CASE Edit
    <3>1. changes' \in 0 .. MaxChanges
      BY <2>4, DisruptTyped DEF Edit
    <3> QED
      BY <1>1, <1>2, <2>4, <3>1 DEF Edit, ThumbTypeOK, thumbUi, wire
  <2> QED
    BY <2>1, <2>2, <2>3, <2>4
<1> QED
  BY <1>3, <1>4, <1>5

-------------------------------------------------------------------------------
(* The user *)

LEMMA AskKeeps ==
  ASSUME IInv, ThumbAssumption, NEW id \in Ids, Ask(id)
  PROVE  IInv'
<1> USE DEF IInv
<1> DEFINE r == NewRequest(session, profile, selection)
<1>1. r \in Requests /\ r.at = "queued"
  BY NewIsRequest DEF ThumbTypeOK
<1>2. /\ req' = [req EXCEPT ![id] = r] /\ req[id] = Free
      /\ row' = row /\ thumb' = thumb /\ mtime' = mtime
  BY DEF Ask, db, file, Underway
<1> HIDE DEF r
<1>3. /\ req' \in [Ids -> Requests \cup {Free}]
      /\ req'[id] = r /\ \A j \in Ids \ {id} : req'[j] = req[j]
  BY <1>1, <1>2, ReqUpdate
<1>4. ~HoldsClaim(req[id])
  BY <1>2 DEF HoldsClaim, Free
<1>5. ThumbTypeOK'
  BY <1>3 DEF Ask, ThumbTypeOK, file, db
<1> QED
  BY <1>1, <1>2, <1>3, <1>4, <1>5, ClaimStays, PictureStays, StampsStay

LEMMA ChangeProfileKeeps ==
  ASSUME IInv, ThumbAssumption, NEW p \in Profiles, ChangeProfile(p)
  PROVE  IInv'
<1> USE DEF IInv
<1>1. /\ row' = InvalidateRow(p) /\ thumb' = thumb /\ req' = req /\ mtime' = mtime
  BY DEF ChangeProfile, wire, file
<1>2. row' \in Rows /\ (row'.status \in {"processing", "current"} => row' = row)
  BY <1>1, Types, InvalidateRowLands
<1>3. ProcessingIsOwned'
  BY <1>1, <1>2 DEF ProcessingIsOwned, HoldsClaim
<1>4. StampsBehind'
  BY <1>1 DEF StampsBehind
<1>5. ThumbTypeOK'
  <2>1. changes' \in 0 .. MaxChanges
    BY DisruptTyped DEF ChangeProfile
  <2>2. session' \in Nat
    BY DEF ChangeProfile, ThumbTypeOK
  <2>3. /\ present' = present /\ results' = results /\ profile' \in Profiles
        /\ selection' = selection /\ pending' = FALSE /\ failed' = FALSE
        /\ shown' = shown /\ forgotten' = FALSE
    BY DEF ChangeProfile, file, wire
  <2> QED
    BY <1>1, <1>2, <2>1, <2>2, <2>3 DEF ThumbTypeOK, Rows
<1> QED
  BY <1>1, <1>2, <1>3, <1>4, <1>5, PictureStays

LEMMA ChangeSelectionKeeps ==
  ASSUME IInv, ThumbAssumption, NEW s \in Picks, ChangeSelection(s)
  PROVE  IInv'
<1> USE DEF IInv
<1>1. row' = ResetRow(s) /\ thumb' = thumb /\ mtime' = mtime
  BY DEF ChangeSelection, file
<1>2. row' \in Rows /\ row'.status \in {"missing", "stale"}
  BY <1>1, Types, ResetRowLands
<1>3. ProcessingIsOwned'
  BY <1>2 DEF ProcessingIsOwned
<1>4. CurrentIsTrue' /\ StampNotAhead'
  BY <1>1, <1>2, PictureStays
<1>5. /\ req' \in [Ids -> Requests \cup {Free}] /\ pending' \in BOOLEAN
      /\ StampsBehind'
  <2>1. CASE req' = req /\ pending' = FALSE
    BY <1>1, <2>1 DEF StampsBehind, ThumbTypeOK
  <2>2. ASSUME NEW id \in Ids, pending' = TRUE,
               req' = [req EXCEPT ![id] = NewRequest(session, profile, s)]
        PROVE  /\ req' \in [Ids -> Requests \cup {Free}] /\ pending' \in BOOLEAN
               /\ StampsBehind'
    <3> DEFINE r == NewRequest(session, profile, s)
    <3>1. r \in Requests /\ r.at = "queued"
      BY NewIsRequest
    <3> HIDE DEF r
    <3>2. req' = [req EXCEPT ![id] = r]
      BY <2>2 DEF r
    <3>3. /\ req' \in [Ids -> Requests \cup {Free}]
          /\ req'[id] = r /\ \A j \in Ids \ {id} : req'[j] = req[j]
      BY <3>1, <3>2, ReqUpdate
    <3> QED
      BY <1>1, <2>2, <3>1, <3>3, StampsStay
  <2> QED
    BY <2>1, <2>2 DEF ChangeSelection
<1>6. ThumbTypeOK'
  <2>1. changes' \in 0 .. MaxChanges
    BY DisruptTyped DEF ChangeSelection
  <2> QED
    BY <1>1, <1>2, <1>5, <2>1 DEF ChangeSelection, ThumbTypeOK, Rows, file
<1> QED
  BY <1>3, <1>4, <1>5, <1>6

-------------------------------------------------------------------------------
(* The probe threads *)

\* A request that ends without having claimed the row, or is only moved on.
LEMMA ReleaseTyped ==
  ASSUME ThumbTypeOK, NEW id \in Ids, Release(id)
  PROVE  /\ req' \in [Ids -> Requests \cup {Free}]
         /\ req'[id] = Free /\ \A j \in Ids \ {id} : req'[j] = req[j]
BY ReqUpdate DEF Release

LEMMA DropProbeKeeps ==
  ASSUME IInv, ThumbAssumption, NEW id \in Ids, DropProbe(id)
  PROVE  IInv'
<1> USE DEF IInv
<1>1. /\ Release(id) /\ req[id].at = "queued"
      /\ row' = row /\ thumb' = thumb /\ mtime' = mtime
  BY DEF DropProbe, db, file
<1>2. /\ req' \in [Ids -> Requests \cup {Free}]
      /\ req'[id].at = "free" /\ \A j \in Ids \ {id} : req'[j] = req[j]
  BY <1>1, ReleaseTyped DEF Free
<1>3. ~HoldsClaim(req[id])
  BY <1>1 DEF HoldsClaim
<1>4. ThumbTypeOK'
  BY <1>1, <1>2 DEF DropProbe, ThumbTypeOK, file, db, thumbUi
<1> QED
  BY <1>1, <1>2, <1>3, <1>4, ClaimStays, PictureStays, StampsStay

LEMMA ProbeKeeps ==
  ASSUME IInv, ThumbAssumption, NEW id \in Ids, Probe(id)
  PROVE  IInv'
<1> USE DEF IInv
<1>1. /\ req[id].at = "queued" /\ req[id] \in Requests
      /\ row' = row /\ thumb' = thumb /\ mtime' = mtime
  BY RequestIs DEF Probe, db, file
<1>2. PICK m \in StatOf :
        req' = [req EXCEPT ![id].at = "probed", ![id].had = (thumb # NoThumb),
                           ![id].stamp = m]
  BY DEF Probe
<1> DEFINE had == (thumb # NoThumb)
           r == [req[id] EXCEPT !.at = "probed", !.had = had, !.stamp = m]
<1>3. m \in Mtimes /\ had \in BOOLEAN
  BY Types
<1>4. r \in Requests /\ r.at = "probed"
  <2> HIDE DEF had
  <2> QED
    BY <1>1, <1>3, Probed
<1>5. req' = [req EXCEPT ![id] = r]
  <2> HIDE DEF had
  <2>1. req' = [req EXCEPT ![id].at = "probed", ![id].had = had, ![id].stamp = m]
    BY <1>2 DEF had
  <2> QED
    BY <2>1 DEF ThumbTypeOK
<1> HIDE DEF r
<1>6. /\ req' \in [Ids -> Requests \cup {Free}]
      /\ req'[id] = r /\ \A j \in Ids \ {id} : req'[j] = req[j]
  BY <1>4, <1>5, ReqUpdate
<1>7. ~HoldsClaim(req[id])
  BY <1>1 DEF HoldsClaim
<1>8. results' \in Seq(Results)
  BY <1>1, AnswerTyped DEF Probe, ThumbTypeOK
<1>9. ThumbTypeOK'
  BY <1>1, <1>6, <1>8 DEF Probe, ThumbTypeOK, file, db, thumbUi
<1> QED
  BY <1>1, <1>4, <1>6, <1>7, <1>9, ClaimStays, PictureStays, StampsStay

LEMMA RefuseKeeps ==
  ASSUME IInv, ThumbAssumption, NEW id \in Ids, Refuse(id)
  PROVE  IInv'
<1> USE DEF IInv
<1>1. /\ Release(id) /\ req[id].at = "probed" /\ req[id] \in Requests
      /\ Answer(req[id], "complete", FALSE, ~req[id].had)
      /\ row' = row /\ thumb' = thumb /\ mtime' = mtime
  BY RequestIs DEF Refuse, db, file
<1>2. /\ req' \in [Ids -> Requests \cup {Free}]
      /\ req'[id].at = "free" /\ \A j \in Ids \ {id} : req'[j] = req[j]
  BY <1>1, ReleaseTyped DEF Free
<1>3. ~HoldsClaim(req[id])
  BY <1>1 DEF HoldsClaim
<1>4. results' \in Seq(Results)
  BY <1>1, AnswerTyped
<1>5. ThumbTypeOK'
  BY <1>1, <1>2, <1>4 DEF Refuse, ThumbTypeOK, file, db, thumbUi
<1> QED
  BY <1>1, <1>2, <1>3, <1>5, ClaimStays, PictureStays, StampsStay

\* Whoever held the row before, the request that claims it holds it now.
LEMMA ClaimKeeps ==
  ASSUME IInv, ThumbAssumption, NEW id \in Ids, Claim(id)
  PROVE  IInv'
<1> USE DEF IInv
<1>1. /\ req[id].at = "probed" /\ req[id] \in Requests
      /\ row' = ClaimRow(req[id]) /\ thumb' = thumb /\ mtime' = mtime
      /\ req' = [req EXCEPT ![id].at = "claimed", ![id].token = row.token + 1]
  BY RequestIs DEF Claim, file
<1>2. row.token \in Nat /\ row.token + 1 \in Nat
  BY DEF ThumbTypeOK
<1> DEFINE token == row.token + 1
           r == [req[id] EXCEPT !.at = "claimed", !.token = token]
<1>3. /\ r \in Requests /\ r.at = "claimed" /\ r.token = token
      /\ r.profile = req[id].profile /\ r.source = req[id].source /\ r.stamp = req[id].stamp
  <2> HIDE DEF token
  <2> QED
    BY <1>1, <1>2, Claimed DEF token
<1>4. req' = [req EXCEPT ![id] = r]
  <2> HIDE DEF token
  <2>1. req' = [req EXCEPT ![id].at = "claimed", ![id].token = token]
    BY <1>1 DEF token
  <2> QED
    BY <2>1 DEF ThumbTypeOK
<1>5. /\ row' = [status |-> "processing", token |-> token, profile |-> r.profile,
                 mtime |-> r.stamp, want |-> r.source]
      /\ r.at = "claimed" /\ r.token = token
  <2> HIDE DEF r
  <2> QED
    BY <1>1, <1>3 DEF ClaimRow
<1> HIDE DEF r
<1>6. /\ req' \in [Ids -> Requests \cup {Free}]
      /\ req'[id] = r /\ \A j \in Ids \ {id} : req'[j] = req[j]
  BY <1>3, <1>4, ReqUpdate
<1>7. row' \in Rows
  BY <1>2, <1>3, <1>5 DEF Rows, Requests, Statuses
<1>8. HoldsClaim(req[id])'
  BY <1>5, <1>6 DEF HoldsClaim
<1>9. ProcessingIsOwned'
  BY <1>8 DEF ProcessingIsOwned
<1>10. CurrentIsTrue' /\ StampNotAhead'
  BY <1>1, <1>5, PictureStays
<1>11. StampsBehind'
  BY <1>1, <1>5, <1>6, StampsStay
<1>12. ThumbTypeOK'
  BY <1>1, <1>6, <1>7 DEF Claim, ThumbTypeOK, Rows, file, thumbUi
<1> QED
  BY <1>9, <1>10, <1>11, <1>12

-------------------------------------------------------------------------------
(* The generation threads *)

LEMMA DropClaimKeeps ==
  ASSUME IInv, ThumbAssumption, NEW id \in Ids, DropClaim(id)
  PROVE  IInv'
<1> USE DEF IInv
<1>1. /\ Release(id) /\ row' = FailRow(req[id]) /\ thumb' = thumb /\ mtime' = mtime
  BY DEF DropClaim, file
<1>2. /\ req' \in [Ids -> Requests \cup {Free}]
      /\ req'[id].at = "free" /\ \A j \in Ids \ {id} : req'[j] = req[j]
  BY <1>1, ReleaseTyped DEF Free
<1>3. row' \in Rows /\ (row'.status = "current" => row' = row)
  BY <1>1, Types, FailRowLands
<1>4. ThumbTypeOK'
  BY <1>1, <1>2, <1>3 DEF DropClaim, ThumbTypeOK, Rows, file, thumbUi
<1> QED
  BY <1>1, <1>2, <1>3, <1>4, ClaimGivenBack, PictureStays, StampsStay

LEMMA FailKeeps ==
  ASSUME IInv, ThumbAssumption, NEW id \in Ids, Fail(id)
  PROVE  IInv'
<1> USE DEF IInv
<1>1. /\ Release(id) /\ row' = FailRow(req[id]) /\ thumb' = thumb /\ mtime' = mtime
      /\ req[id] \in Requests /\ Answer(req[id], "complete", FALSE, TRUE)
  BY RequestIs DEF Fail, file
<1>2. /\ req' \in [Ids -> Requests \cup {Free}]
      /\ req'[id].at = "free" /\ \A j \in Ids \ {id} : req'[j] = req[j]
  BY <1>1, ReleaseTyped DEF Free
<1>3. row' \in Rows /\ (row'.status = "current" => row' = row)
  BY <1>1, Types, FailRowLands
<1>4. results' \in Seq(Results)
  BY <1>1, AnswerTyped
<1>5. ThumbTypeOK'
  BY <1>1, <1>2, <1>3, <1>4 DEF Fail, ThumbTypeOK, Rows, file, thumbUi
<1> QED
  BY <1>1, <1>2, <1>3, <1>5, ClaimGivenBack, PictureStays, StampsStay

LEMMA StatFileKeeps ==
  ASSUME IInv, ThumbAssumption, NEW id \in Ids, StatFile(id)
  PROVE  IInv'
<1> USE DEF IInv
<1>1. /\ req[id].at = "claimed" /\ req[id] \in Requests
      /\ row' = row /\ thumb' = thumb /\ mtime' = mtime
  BY RequestIs DEF StatFile, db, file
<1>2. PICK m \in StatOf : req' = [req EXCEPT ![id].at = "reading", ![id].stamp = m]
  BY DEF StatFile
<1> DEFINE r == [req[id] EXCEPT !.at = "reading", !.stamp = m]
<1>3. m \in Mtimes /\ m <= mtime
  BY Types
<1>4. /\ r \in Requests /\ r.at = "reading" /\ r.stamp = m
      /\ r.profile = req[id].profile /\ r.source = req[id].source
      /\ r.token = req[id].token
  BY <1>1, <1>3, Stamped
<1>5. req' = [req EXCEPT ![id] = r]
  BY <1>2 DEF ThumbTypeOK
<1> HIDE DEF r
<1>6. /\ req' \in [Ids -> Requests \cup {Free}]
      /\ req'[id] = r /\ \A j \in Ids \ {id} : req'[j] = req[j]
  BY <1>4, <1>5, ReqUpdate
<1>7. HoldsClaim(req[id]) => HoldsClaim(req[id])'
  BY <1>1, <1>4, <1>6 DEF HoldsClaim
<1>8. ThumbTypeOK'
  BY <1>1, <1>6 DEF StatFile, ThumbTypeOK, file, db, thumbUi
<1> QED
  BY <1>1, <1>3, <1>4, <1>6, <1>7, <1>8, ClaimStays, PictureStays, StampsStay

LEMMA ReadFileKeeps ==
  ASSUME IInv, ThumbAssumption, NEW id \in Ids, ReadFile(id)
  PROVE  IInv'
<1> USE DEF IInv
<1> DEFINE key == IF req[id].source \in present THEN req[id].source ELSE NoSource
           r == [req[id] EXCEPT !.at = "made", !.content = mtime, !.made = key]
<1>1. /\ req[id].at = "reading" /\ req[id] \in Requests
      /\ row' = row /\ thumb' = thumb /\ mtime' = mtime
      /\ req' = [req EXCEPT ![id].at = "made", ![id].content = mtime, ![id].made = key]
  BY RequestIs DEF ReadFile, db, file
<1>2. key \in Picks
  BY DEF ThumbTypeOK, Picks
<1>3. /\ r \in Requests /\ r.at = "made" /\ r.stamp = req[id].stamp /\ r.content = mtime
      /\ r.profile = req[id].profile /\ r.source = req[id].source
      /\ r.token = req[id].token
  <2> DEFINE x == req[id]
             m == mtime
  <2>1. x \in Requests /\ m \in Mtimes
    BY <1>1, Types
  <2>2. r = [x EXCEPT !.at = "made", !.content = m, !.made = key]
    OBVIOUS
  <2> HIDE DEF key, x, m, r
  <2>3. /\ r \in Requests /\ r.at = "made" /\ r.stamp = x.stamp /\ r.content = m
        /\ r.profile = x.profile /\ r.source = x.source /\ r.token = x.token
    BY <1>2, <2>1, <2>2 DEF Requests, Stages
  <2> QED
    BY <2>3 DEF x, m
<1>4. req' = [req EXCEPT ![id] = r]
  BY <1>1 DEF ThumbTypeOK
<1> HIDE DEF r
<1>5. /\ req' \in [Ids -> Requests \cup {Free}]
      /\ req'[id] = r /\ \A j \in Ids \ {id} : req'[j] = req[j]
  BY <1>3, <1>4, ReqUpdate
<1>6. HoldsClaim(req[id]) => HoldsClaim(req[id])'
  BY <1>1, <1>3, <1>5 DEF HoldsClaim
<1>7. req[id].stamp <= mtime
  BY <1>1 DEF StampsBehind
<1>8. StampsBehind'
  BY <1>1, <1>3, <1>5, <1>7, StampsStay
<1>9. ThumbTypeOK'
  BY <1>1, <1>5 DEF ReadFile, ThumbTypeOK, file, db, thumbUi
<1> QED
  BY <1>1, <1>5, <1>6, <1>8, <1>9, ClaimStays, PictureStays

\* The commit: the comparison with the claim is what makes the row true.
LEMMA FinishKeeps ==
  ASSUME IInv, ThumbAssumption, NEW id \in Ids, Finish(id)
  PROVE  IInv'
<1> USE DEF IInv
<1>1. /\ req[id].at = "made" /\ req[id] \in Requests /\ Release(id) /\ mtime' = mtime
      /\ req[id].stamp <= req[id].content
  BY RequestIs DEF Finish, file, StampsBehind
<1>2. /\ req' \in [Ids -> Requests \cup {Free}]
      /\ req'[id].at = "free" /\ \A j \in Ids \ {id} : req'[j] = req[j]
  BY <1>1, ReleaseTyped DEF Free
<1>3. StampsBehind'
  BY <1>1, <1>2, StampsStay
<1>4. results' \in Seq(Results)
  BY <1>1, AnswerTyped DEF Finish
<1>5. CASE Accepts(req[id])
  <2>1. row' = [row EXCEPT !.status = "current"] /\ row.want = req[id].made
        /\ row.profile = req[id].profile /\ row.mtime = req[id].stamp
    BY <1>5 DEF Finish, CommitRow, Accepts
  <2>2. /\ row' \in Rows /\ row'.status = "current" /\ row'.profile = row.profile
        /\ row'.mtime = row.mtime /\ row'.want = row.want
    BY <2>1, Types DEF Rows, Statuses
  <2>3. thumb' = [mtime |-> req[id].stamp, profile |-> req[id].profile,
                  source |-> req[id].made, content |-> req[id].content]
    BY <1>5 DEF Finish, CommitThumb
  <2>4. /\ thumb' \in Stored
        /\ thumb'.mtime = req[id].stamp /\ thumb'.content = req[id].content
        /\ thumb'.profile = req[id].profile /\ thumb'.source = req[id].made
    BY <1>1, <2>3 DEF Stored, Requests, Mtimes, ThumbAssumption
  <2>5. thumb' # NoThumb
    <3>1. req[id].stamp # -1
      BY <1>1 DEF Requests, Mtimes, ThumbAssumption
    <3> QED
      BY <2>4, <3>1 DEF NoThumb
  <2>6. CurrentIsTrue'
    BY <2>1, <2>2, <2>4, <2>5 DEF CurrentIsTrue
  <2>7. StampNotAhead'
    BY <1>1, <2>4 DEF StampNotAhead
  <2>8. ProcessingIsOwned'
    BY <2>2 DEF ProcessingIsOwned
  <2>9. ThumbTypeOK'
    BY <1>1, <1>2, <1>4, <2>2, <2>4 DEF Finish, ThumbTypeOK, Rows, Stored, file, thumbUi
  <2> QED
    BY <1>3, <2>6, <2>7, <2>8, <2>9
<1>6. CASE ~Accepts(req[id])
  <2>1. row' = FailRow(req[id]) /\ thumb' = thumb
    BY <1>6 DEF Finish
  <2>2. row' \in Rows /\ (row'.status = "current" => row' = row)
    BY <2>1, Types, FailRowLands
  <2>3. ThumbTypeOK'
    BY <1>1, <1>2, <1>4, <2>1, <2>2 DEF Finish, ThumbTypeOK, Rows, file, thumbUi
  <2> QED
    BY <1>2, <1>3, <2>1, <2>2, <2>3, ClaimGivenBack, PictureStays
<1> QED
  BY <1>5, <1>6

-------------------------------------------------------------------------------
(* Moves and restarts *)

LEMMA TransplantKeeps ==
  ASSUME IInv, ThumbAssumption, Transplant
  PROVE  IInv'
<1> USE DEF IInv
<1>1. PICK m \in 1 .. mtime, p \in Profiles, s \in Picks, t \in 1 .. 2 :
        /\ thumb' = [mtime |-> m, profile |-> p, source |-> s, content |-> m]
        /\ row' = [status |-> "current", token |-> t, profile |-> p, mtime |-> m, want |-> s]
  BY DEF Transplant
<1>2. req' = req /\ mtime' = mtime /\ changes' \in 0 .. MaxChanges
  BY DisruptTyped DEF Transplant, wire, file
<1>3. m \in 1 .. MaxMtime /\ m \in Mtimes /\ m \in -1 .. MaxMtime /\ m # -1
  BY DEF ThumbTypeOK, Mtimes, ThumbAssumption
<1>4. row' \in Rows /\ row'.status = "current" /\ thumb' \in Stored
  BY <1>1, <1>3 DEF Rows, Stored, Statuses
<1>5. CurrentIsTrue'
  BY <1>1, <1>3 DEF CurrentIsTrue, NoThumb
<1>6. StampNotAhead' /\ ProcessingIsOwned' /\ StampsBehind'
  BY <1>1, <1>2, <1>3 DEF StampNotAhead, ProcessingIsOwned, StampsBehind
<1>7. ThumbTypeOK'
  BY <1>2, <1>4 DEF Transplant, ThumbTypeOK, Rows, Stored, file, thumbUi, wire
<1> QED
  BY <1>5, <1>6, <1>7

LEMMA RestartKeeps ==
  ASSUME IInv, ThumbAssumption, Restart
  PROVE  IInv'
<1> USE DEF IInv
<1>1. /\ row' = RecoverRow /\ thumb' = thumb /\ mtime' = mtime
      /\ req' = [id \in Ids |-> Free] /\ results' = <<>>
      /\ changes' \in 0 .. MaxChanges
  BY DisruptTyped DEF Restart, file
<1>2. /\ row' \in Rows /\ row'.status # "processing"
      /\ row'.status = "current" => row' = row
  BY <1>1, Types, RecoverRowLands
<1>3. ProcessingIsOwned'
  BY <1>2 DEF ProcessingIsOwned
<1>4. CurrentIsTrue' /\ StampNotAhead'
  BY <1>1, <1>2, PictureStays
<1>5. StampsBehind'
  BY <1>1 DEF StampsBehind, Free
<1>6. ThumbTypeOK'
  <2>1. <<>> \in Seq(Results) /\ [id \in Ids |-> Free] \in [Ids -> Requests \cup {Free}]
    OBVIOUS
  <2>2. /\ present' = present /\ profile' = profile /\ selection' = selection
        /\ session' = 1 /\ pending' = FALSE /\ failed' = FALSE /\ shown' = FALSE
        /\ forgotten' = FALSE
    BY DEF Restart, file
  <2> QED
    BY <1>1, <1>2, <2>1, <2>2 DEF ThumbTypeOK, Rows
<1> QED
  BY <1>3, <1>4, <1>5, <1>6

-------------------------------------------------------------------------------
LEMMA InitKeeps ==
  ASSUME ThumbAssumption, ThumbInit
  PROVE  IInv
<1> DEFINE old == [NoThumb EXCEPT !.mtime = 1, !.content = 1]
<1>1. NoThumb \in Stored /\ old \in Stored /\ old.mtime = 1 /\ old.content = 1
  <2>1. 1 \in -1 .. MaxMtime /\ -1 \in -1 .. MaxMtime /\ NoSource \in Picks
    BY DEF Picks, ThumbAssumption
  <2>2. NoThumb \in Stored
    BY <2>1 DEF NoThumb, Stored
  <2> QED
    BY <2>1, <2>2 DEF Stored
<1>b. thumb = NoThumb \/ thumb = old
  BY DEF ThumbInit
<1> HIDE DEF old
<1>2. thumb \in Stored /\ StampNotAhead
  BY <1>1, <1>b DEF NoThumb, StampNotAhead
<1>3. AtRest \in {"missing", "stale"}
  BY DEF AtRest
<1>4. row \in Rows /\ row.status \in {"missing", "stale"}
  BY <1>3 DEF ThumbInit, Rows, Statuses, Mtimes, Picks, ThumbAssumption
<1>5. StampsBehind
  BY DEF ThumbInit, StampsBehind, Free
<1>6. ProcessingIsOwned /\ CurrentIsTrue
  BY <1>4 DEF ProcessingIsOwned, CurrentIsTrue
<1>7. ThumbTypeOK
  <2>1. <<>> \in Seq(Results) /\ [id \in Ids |-> Free] \in [Ids -> Requests \cup {Free}]
    OBVIOUS
  <2>2. mtime \in 1 .. MaxMtime /\ changes \in 0 .. MaxChanges
    BY DEF ThumbInit, ThumbAssumption
  <2> QED
    BY <1>2, <1>4, <2>1, <2>2 DEF ThumbInit, ThumbTypeOK, Rows, Stored
<1> QED
  BY <1>2, <1>5, <1>6, <1>7 DEF IInv

\* The inductive invariant, for all values of the constants.
THEOREM Invariance ==
  ASSUME ThumbAssumption
  PROVE  ThumbSpec => []IInv
<1>1. ThumbInit => IInv
  BY InitKeeps
<1>2. IInv /\ [ThumbNext]_thumbVars => IInv'
  <2> SUFFICES ASSUME IInv, [ThumbNext]_thumbVars PROVE IInv'
    OBVIOUS
  <2>1. CASE UNCHANGED thumbVars
    BY <2>1 DEF thumbVars, file, db, thumbUi, wire, IInv, ThumbTypeOK, ProcessingIsOwned, HoldsClaim,
                CurrentIsTrue, StampNotAhead, StampsBehind
  <2>2. CASE User
    BY <2>2, QuietKeeps, ChangeProfileKeeps, ChangeSelectionKeeps DEF User
  <2>3. CASE World
    BY <2>3, QuietKeeps, TransplantKeeps, RestartKeeps DEF World
  <2>4. CASE Poll
    BY <2>4, QuietKeeps
  <2>5. ASSUME NEW id \in Ids, Ask(id) \/ Prober(id) \/ Generator(id)
        PROVE  IInv'
    BY <2>5, AskKeeps, DropProbeKeeps, ProbeKeeps, RefuseKeeps, ClaimKeeps, DropClaimKeeps,
       StatFileKeeps, ReadFileKeeps, FinishKeeps, FailKeeps DEF Prober, Generator
  <2> QED
    BY <2>1, <2>2, <2>3, <2>4, <2>5 DEF ThumbNext
<1> QED
  BY <1>1, <1>2, PTL DEF ThumbSpec

\* Every state is well typed, for any settings, pages and number of requests.
THEOREM TypeCorrect ==
  ASSUME ThumbAssumption
  PROVE  ThumbSpec => []ThumbTypeOK
BY Invariance, PTL DEF IInv

\* A row in `processing' belongs to a request that will finish it or give it back, with
\* any number of requests and whatever settings, folders, files and restarts intervene.
THEOREM NoLockout ==
  ASSUME ThumbAssumption
  PROVE  ThumbSpec => []ProcessingIsOwned
BY Invariance, PTL DEF IInv

\* A row that says `current' describes the stored picture: claims may be superseded by
\* any number of others, and the file read may differ from the one claimed for.
THEOREM CurrentRowsAreTrue ==
  ASSUME ThumbAssumption
  PROVE  ThumbSpec => []CurrentIsTrue
BY Invariance, PTL DEF IInv

\* No picture is stored with a stamp younger than what it was made from.
THEOREM StampsNeverAhead ==
  ASSUME ThumbAssumption
  PROVE  ThumbSpec => []StampNotAhead
BY Invariance, PTL DEF IInv

-------------------------------------------------------------------------------
(* A mark is always answered.  PendingIsAnswered is inductive given the types: *)
(* whatever takes a wanted request away leaves a wanted answer.                *)

\* What the mark waits for: a request under way, or a final answer on its way.
Awaited ==
  \/ \E id \in Ids : Underway(id) /\ Wanted(req[id])
  \/ \E i \in DOMAIN results : results[i].stage = "complete" /\ Wanted(results[i])

\* The mark as PendingIsAnswered sees it.
LEMMA MarkOf == PendingIsAnswered <=> (pending /\ ~forgotten => Awaited)
BY DEF PendingIsAnswered, Awaited

\* The same after a step.
LEMMA MarkOfNext == PendingIsAnswered' <=> (pending' /\ ~forgotten' => Awaited')
BY DEF PendingIsAnswered, Awaited

\* What becomes of one request cannot leave the mark without its answer, as long as
\* that request goes on, was not wanted, or is answered.
LEMMA StillAwaited ==
  ASSUME UNCHANGED <<profile, selection, session>>, NEW id \in Ids,
         \A j \in Ids \ {id} : req'[j] = req[j],
         \A i \in DOMAIN results : i \in DOMAIN results' /\ results'[i] = results[i],
         Wanted(req[id]) =>
            \/ req'[id] # Free /\ Wanted(req[id])'
            \/ \E i \in DOMAIN results' :
                 results'[i].stage = "complete" /\ Wanted(results[i])',
         Awaited
  PROVE  Awaited'
<1>1. CASE \E j \in Ids : Underway(j) /\ Wanted(req[j])
  <2>1. PICK j \in Ids : Underway(j) /\ Wanted(req[j])
    BY <1>1
  <2>2. CASE j = id
    BY <2>1, <2>2 DEF Awaited, Underway, Wanted
  <2>3. CASE j # id
    BY <2>1, <2>3 DEF Awaited, Underway, Wanted
  <2> QED
    BY <2>2, <2>3
<1>2. CASE \E i \in DOMAIN results : results[i].stage = "complete" /\ Wanted(results[i])
  BY <1>2 DEF Awaited, Wanted
<1> QED
  BY <1>1, <1>2 DEF Awaited

\* A final answer to request r stands at the end of the queue.
LEMMA AnswerArrives ==
  ASSUME ThumbTypeOK, NEW r \in Requests, NEW stage \in {"preview", "complete"},
         NEW image \in BOOLEAN, NEW fail \in BOOLEAN, Answer(r, stage, image, fail)
  PROVE  /\ \A i \in DOMAIN results : i \in DOMAIN results' /\ results'[i] = results[i]
         /\ \E i \in DOMAIN results' :
              /\ results'[i].stage = stage /\ results'[i].session = r.session
              /\ results'[i].profile = r.profile /\ results'[i].source = r.source
<1> DEFINE a == [stage |-> stage, session |-> r.session, profile |-> r.profile,
                 source |-> r.source, image |-> image, failed |-> fail]
<1>1. a \in Results
  BY DEF Results, Requests
<1>2. results' = Append(results, a) /\ results \in Seq(Results)
  BY DEF Answer, ThumbTypeOK
<1>3. /\ a.stage = stage /\ a.session = r.session
      /\ a.profile = r.profile /\ a.source = r.source
  OBVIOUS
<1> HIDE DEF a
<1>4. /\ DOMAIN results' = 1 .. Len(results) + 1 /\ DOMAIN results = 1 .. Len(results)
      /\ results'[Len(results) + 1] = a
      /\ \A i \in 1 .. Len(results) : results'[i] = results[i]
      /\ Len(results) \in Nat
  BY <1>1, <1>2
<1>5. Len(results) + 1 \in DOMAIN results'
  BY <1>4
<1> QED
  BY <1>3, <1>4, <1>5

\* A request that ends with a final answer, whatever the answer is.
LEMMA AnsweredAwaited ==
  ASSUME ThumbTypeOK, UNCHANGED <<profile, selection, session>>, NEW id \in Ids,
         req[id].at # "free", Release(id), Awaited,
         NEW image \in BOOLEAN, NEW fail \in BOOLEAN,
         Answer(req[id], "complete", image, fail)
  PROVE  Awaited'
<1>1. req[id] \in Requests
  BY RequestIs
<1>2. \A j \in Ids \ {id} : req'[j] = req[j]
  BY ReleaseTyped
<1>3. /\ \A i \in DOMAIN results : i \in DOMAIN results' /\ results'[i] = results[i]
      /\ \E i \in DOMAIN results' :
           /\ results'[i].stage = "complete" /\ results'[i].session = req[id].session
           /\ results'[i].profile = req[id].profile /\ results'[i].source = req[id].source
  BY <1>1, AnswerArrives
<1>4. Wanted(req[id]) =>
         \E i \in DOMAIN results' : results'[i].stage = "complete" /\ Wanted(results[i])'
  BY <1>3 DEF Wanted
<1> QED
  BY <1>2, <1>3, <1>4, StillAwaited

\* A request of another session was not wanted.
LEMMA DroppedAwaited ==
  ASSUME ThumbTypeOK, UNCHANGED <<profile, selection, session>>, NEW id \in Ids,
         req[id].session # session, Release(id), results' = results, Awaited
  PROVE  Awaited'
<1>1. \A j \in Ids \ {id} : req'[j] = req[j]
  BY ReleaseTyped
<1>2. ~Wanted(req[id])
  BY DEF Wanted
<1> QED
  BY <1>1, <1>2, StillAwaited

\* A request that goes on to its next stage still asks for the same picture.
LEMMA GoneOnAwaited ==
  ASSUME ThumbTypeOK, UNCHANGED <<profile, selection, session>>, NEW id \in Ids,
         NEW r \in Requests, req' = [req EXCEPT ![id] = r],
         r.session = req[id].session, r.profile = req[id].profile, r.source = req[id].source,
         \A i \in DOMAIN results : i \in DOMAIN results' /\ results'[i] = results[i],
         Awaited
  PROVE  Awaited'
<1>1. req'[id] = r /\ \A j \in Ids \ {id} : req'[j] = req[j]
  BY ReqUpdate
<1>2. r # Free
  BY DEF Free, Requests, Stages
<1>3. Wanted(req[id]) => Wanted(req[id])'
  BY <1>1 DEF Wanted
<1> QED
  BY <1>1, <1>2, <1>3, StillAwaited

\* Asking for a picture puts a wanted request on its way.
LEMMA AskedAwaited ==
  ASSUME ThumbTypeOK, ThumbAssumption, NEW id \in Ids, NEW s \in Picks,
         req' = [req EXCEPT ![id] = NewRequest(session, profile, s)],
         UNCHANGED <<profile, session>>, selection' = s
  PROVE  Awaited'
<1>1. NewRequest(session, profile, s) \in Requests
  BY NewIsRequest
<1>2. req'[id] = NewRequest(session, profile, s)
  BY <1>1, ReqUpdate
<1>3. Underway(id)'
  BY <1>1, <1>2 DEF Underway, Free, Requests, Stages
<1>4. Wanted(req[id])'
  BY <1>2 DEF Wanted, NewRequest
<1> QED
  BY <1>3, <1>4 DEF Awaited

\* poll_workers takes the answers in the order they came: the one it takes ends the
\* mark if it is the wanted one.
LEMMA PollAwaited ==
  ASSUME ThumbTypeOK, Poll, pending', Awaited
  PROVE  Awaited'
<1>1. /\ results \in Seq(Results) /\ results # <<>> /\ results' = Tail(results)
      /\ UNCHANGED <<profile, selection, session, req>>
  BY DEF Poll, ThumbTypeOK
<1>2. CASE \E id \in Ids : Underway(id) /\ Wanted(req[id])
  BY <1>1, <1>2 DEF Awaited, Underway, Wanted
<1>3. CASE \E i \in DOMAIN results : results[i].stage = "complete" /\ Wanted(results[i])
  <2>1. PICK i \in DOMAIN results : results[i].stage = "complete" /\ Wanted(results[i])
    BY <1>3
  <2>2. i # 1
    <3>1. ASSUME i = 1 PROVE pending' = FALSE
      <4>1. Head(results) = results[1]
        BY <1>1
      <4> QED
        BY <2>1, <3>1, <4>1 DEF Poll, Wanted
    <3> QED
      BY <3>1
  <2>3. i - 1 \in DOMAIN results' /\ results'[i - 1] = results[i]
    BY <1>1, <2>1, <2>2
  <2>4. Wanted(results[i - 1])'
    BY <1>1, <2>1, <2>3 DEF Wanted
  <2> QED
    BY <2>1, <2>3, <2>4 DEF Awaited
<1> QED
  BY <1>2, <1>3 DEF Awaited

\* What the user and the world do.
LEMMA UserKeepsMark ==
  ASSUME IInv, ThumbAssumption, PendingIsAnswered, User \/ World
  PROVE  PendingIsAnswered'
<1> USE DEF IInv
<1>1. SUFFICES ASSUME pending', ~forgotten' PROVE Awaited'
  BY MarkOfNext
<1>2. CASE Reenter \/ Restart \/ \E p \in Profiles : ChangeProfile(p)
  BY <1>1, <1>2 DEF Reenter, Restart, ChangeProfile
<1>3. CASE OpenBook
  BY <1>1, <1>3 DEF OpenBook
<1>4. ASSUME NEW s \in Picks, ChangeSelection(s) PROVE Awaited'
  <2>1. /\ UNCHANGED <<profile, session>> /\ selection' = s
    BY <1>4 DEF ChangeSelection
  <2>2. PICK id \in Ids : req' = [req EXCEPT ![id] = NewRequest(session, profile, s)]
    BY <1>1, <1>4 DEF ChangeSelection
  <2> QED
    BY <2>1, <2>2, AskedAwaited
<1>5. CASE Edit \/ Transplant
  <2>1. UNCHANGED <<pending, forgotten, profile, selection, session, req, results>>
    BY <1>5 DEF Edit, Transplant, thumbUi, wire
  <2>2. Awaited
    BY <1>1, <2>1, MarkOf
  <2> QED
    BY <2>1, <2>2 DEF Awaited, Underway, Wanted
<1> QED
  BY <1>2, <1>3, <1>4, <1>5 DEF User, World

\* What the probe thread does with a request.
LEMMA ProberKeepsMark ==
  ASSUME IInv, ThumbAssumption, PendingIsAnswered, NEW id \in Ids, Prober(id)
  PROVE  PendingIsAnswered'
<1> USE DEF IInv
<1>1. UNCHANGED <<pending, forgotten, profile, selection, session>>
  BY DEF Prober, DropProbe, Probe, Refuse, Claim, thumbUi
<1>2. SUFFICES ASSUME Awaited PROVE Awaited'
  BY <1>1, MarkOf, MarkOfNext
<1>3. CASE DropProbe(id)
  BY <1>1, <1>2, <1>3, DroppedAwaited DEF DropProbe
<1>4. CASE Refuse(id)
  <2>1. /\ req[id].at # "free" /\ Release(id)
        /\ Answer(req[id], "complete", FALSE, ~req[id].had)
    BY <1>4 DEF Refuse
  <2> QED
    BY <1>1, <1>2, <2>1, AnsweredAwaited
<1>5. CASE Probe(id)
  <2>1. req[id] \in Requests
    BY <1>5, RequestIs DEF Probe
  <2>2. PICK m \in StatOf :
          req' = [req EXCEPT ![id].at = "probed", ![id].had = (thumb # NoThumb),
                             ![id].stamp = m]
    BY <1>5 DEF Probe
  <2> DEFINE had == (thumb # NoThumb)
             r == [req[id] EXCEPT !.at = "probed", !.had = had, !.stamp = m]
  <2>3. m \in Mtimes /\ had \in BOOLEAN
    BY Types
  <2>4. r \in Requests
    <3> HIDE DEF had
    <3> QED
      BY <2>1, <2>3, Probed
  <2>5. r.session = req[id].session /\ r.profile = req[id].profile /\ r.source = req[id].source
    BY <2>1 DEF Requests
  <2>6. req' = [req EXCEPT ![id] = r]
    <3> HIDE DEF had
    <3>1. req' = [req EXCEPT ![id].at = "probed", ![id].had = had, ![id].stamp = m]
      BY <2>2 DEF had
    <3> QED
      BY <3>1 DEF ThumbTypeOK
  <2>7. \A i \in DOMAIN results : i \in DOMAIN results' /\ results'[i] = results[i]
    BY <1>5, <2>1, AnswerArrives DEF Probe
  <2> HIDE DEF r
  <2> QED
    BY <1>1, <1>2, <2>4, <2>5, <2>6, <2>7, GoneOnAwaited
<1>6. CASE Claim(id)
  <2>1. req[id] \in Requests
    BY <1>6, RequestIs DEF Claim
  <2> DEFINE r == [req[id] EXCEPT !.at = "claimed", !.token = row.token + 1]
  <2>2. row.token + 1 \in Nat
    BY Types DEF Rows
  <2>3. r \in Requests
    BY <2>1, <2>2, Claimed
  <2>4. r.session = req[id].session /\ r.profile = req[id].profile /\ r.source = req[id].source
    BY <2>1 DEF Requests
  <2>5. req' = [req EXCEPT ![id] = r]
    BY <1>6 DEF Claim, ThumbTypeOK
  <2>6. results' = results
    BY <1>6 DEF Claim
  <2> HIDE DEF r
  <2> QED
    BY <1>1, <1>2, <2>3, <2>4, <2>5, <2>6, GoneOnAwaited
<1> QED
  BY <1>3, <1>4, <1>5, <1>6 DEF Prober

\* What the generation thread does with it.
LEMMA GeneratorKeepsMark ==
  ASSUME IInv, ThumbAssumption, PendingIsAnswered, NEW id \in Ids, Generator(id)
  PROVE  PendingIsAnswered'
<1> USE DEF IInv
<1>1. UNCHANGED <<pending, forgotten, profile, selection, session>>
  BY DEF Generator, DropClaim, StatFile, ReadFile, Finish, Fail, thumbUi
<1>2. SUFFICES ASSUME Awaited PROVE Awaited'
  BY <1>1, MarkOf, MarkOfNext
<1>3. CASE DropClaim(id)
  BY <1>1, <1>2, <1>3, DroppedAwaited DEF DropClaim
<1>4. CASE Finish(id) \/ Fail(id)
  <2>1. req[id].at # "free" /\ Release(id)
    BY <1>4 DEF Finish, Fail
  <2>2. PICK image \in BOOLEAN, fail \in BOOLEAN : Answer(req[id], "complete", image, fail)
    BY <1>4 DEF Finish, Fail
  <2> QED
    BY <1>1, <1>2, <2>1, <2>2, AnsweredAwaited
<1>5. CASE StatFile(id)
  <2>1. req[id] \in Requests
    BY <1>5, RequestIs DEF StatFile
  <2>2. PICK m \in StatOf : req' = [req EXCEPT ![id].at = "reading", ![id].stamp = m]
    BY <1>5 DEF StatFile
  <2> DEFINE r == [req[id] EXCEPT !.at = "reading", !.stamp = m]
  <2>3. m \in Mtimes
    BY Types
  <2>4. r \in Requests
    BY <2>1, <2>3, Stamped
  <2>5. r.session = req[id].session /\ r.profile = req[id].profile /\ r.source = req[id].source
    BY <2>1 DEF Requests
  <2>6. req' = [req EXCEPT ![id] = r]
    BY <2>2 DEF ThumbTypeOK
  <2>7. results' = results
    BY <1>5 DEF StatFile
  <2> HIDE DEF r
  <2> QED
    BY <1>1, <1>2, <2>4, <2>5, <2>6, <2>7, GoneOnAwaited
<1>6. CASE ReadFile(id)
  <2>1. req[id] \in Requests
    BY <1>6, RequestIs DEF ReadFile
  <2> DEFINE made == IF req[id].source \in present THEN req[id].source ELSE NoSource
             r == [req[id] EXCEPT !.at = "made", !.content = mtime, !.made = made]
  <2>2. made \in Picks /\ mtime \in Mtimes
    BY <2>1, Types DEF Requests, Picks
  <2>3. r \in Requests
    <3> HIDE DEF made
    <3> QED
      BY <2>1, <2>2 DEF Requests, Stages
  <2>4. r.session = req[id].session /\ r.profile = req[id].profile /\ r.source = req[id].source
    BY <2>1 DEF Requests
  <2>5. req' = [req EXCEPT ![id] = r]
    <3>1. req' = [req EXCEPT ![id].at = "made", ![id].content = mtime, ![id].made = made]
      BY <1>6 DEF ReadFile
    <3> HIDE DEF made
    <3> QED
      BY <3>1 DEF ThumbTypeOK
  <2>6. results' = results
    BY <1>6 DEF ReadFile
  <2> HIDE DEF r
  <2> QED
    BY <1>1, <1>2, <2>3, <2>4, <2>5, <2>6, GoneOnAwaited
<1> QED
  BY <1>3, <1>4, <1>5, <1>6 DEF Generator

\* The mark thumb_pending never outlives what it stands for: with any number of
\* requests, an answer the UI will accept is on its way, unless the viewer forgot the
\* registered page in the meantime (poll_workers, claim_and_forward_thumb_gen,
\* generate_thumb, and every way to drop a request).
THEOREM MarksAreAnswered ==
  ASSUME ThumbAssumption
  PROVE  ThumbSpec => []PendingIsAnswered
<1>1. ThumbInit => PendingIsAnswered
  BY DEF ThumbInit, PendingIsAnswered
<1>2. IInv /\ PendingIsAnswered /\ [ThumbNext]_thumbVars => PendingIsAnswered'
  <2> SUFFICES ASSUME IInv, PendingIsAnswered, [ThumbNext]_thumbVars
               PROVE  PendingIsAnswered'
    OBVIOUS
  <2>1. CASE UNCHANGED thumbVars
    BY <2>1 DEF thumbVars, thumbUi, wire, PendingIsAnswered, Underway, Wanted
  <2>2. CASE User \/ World
    BY <2>2, UserKeepsMark
  <2>3. CASE Poll
    <3>1. pending' => pending
      BY <2>3 DEF Poll, ThumbTypeOK, IInv
    <3>2. forgotten' = forgotten
      BY <2>3 DEF Poll
    <3> QED
      BY <2>3, <3>1, <3>2, PollAwaited, MarkOf, MarkOfNext DEF IInv
  <2>4. ASSUME NEW id \in Ids, Ask(id)
        PROVE  PendingIsAnswered'
    <3>1. /\ req' = [req EXCEPT ![id] = NewRequest(session, profile, selection)]
          /\ UNCHANGED <<profile, selection, session>> /\ selection \in Picks
      BY <2>4 DEF Ask, IInv, ThumbTypeOK
    <3> QED
      BY <3>1, AskedAwaited, MarkOfNext DEF IInv
  <2>5. ASSUME NEW id \in Ids, Prober(id) \/ Generator(id)
        PROVE  PendingIsAnswered'
    BY <2>5, ProberKeepsMark, GeneratorKeepsMark
  <2> QED
    BY <2>1, <2>2, <2>3, <2>4, <2>5 DEF ThumbNext
<1> QED
  BY <1>1, <1>2, Invariance, PTL DEF ThumbSpec
================================================================================
