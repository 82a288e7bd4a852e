----------------------------- MODULE UploadsProofs -----------------------------
(***************************************************************************)
(* Proofs about Uploads and the daemon client below it, for any number of  *)
(* calls, children, slots and upload requests, and every subset of the     *)
(* faults.                                                                 *)
(*                                                                         *)
(* The argument.  Request ids are never used twice, so that an answer      *)
(* settles the call it was given to or none.  There is at most one child   *)
(* that runs, it is this.child, and it alone works on calls; so when all   *)
(* pending calls are rejected, nobody works on them any more.  The limiter  *)
(* still knows every request of the window that ends now, so the requests  *)
(* of any window that holds a new one are among those it just counted.     *)
(***************************************************************************)
EXTENDS Uploads, FiniteSetTheorems, TLAPS

\* The ids of the calls that were made.
Numbered ==
    /\ nextId > 0
    /\ \A c \in Calls : outcome[c] # "unmade" => idOf[c] > 0 /\ idOf[c] < nextId
    /\ \A c, d \in Calls :
        outcome[c] # "unmade" /\ outcome[d] # "unmade" /\ idOf[c] = idOf[d] => c = d

\* A call that was not made has left no trace; one whose answer is out ended.
Traced ==
    /\ \A c \in Calls : outcome[c] = "unmade" => work[c] = "none" /\ c \notin out
    /\ \A c \in out : work[c] \in {"ok", "error"}
    /\ \A c \in Calls : work[c] = "ok" => c \in effect

\* The child that runs, or that could not be spawned, is this.child, and only
\* a child that runs works on calls, none of which was rejected.
OneChild ==
    /\ \A p \in Children : proc[p] \in {"running", "failing", "failed"} => child = p
    /\ \A c \in Calls : work[c] \in {"queued", "running", "cancelled"} =>
        to[c] \in Children /\ proc[to[c]] = "running" /\ outcome[c] # "rejected"

DaemonInv == DaemonTypeOK /\ Numbered /\ Traced /\ OneChild /\ OwnAnswer /\ OkMeansDone

-----------------------------------------------------------------------------
(***************************************************************************)
(* The daemon client.                                                      *)
(***************************************************************************)

LEMMA NotZero == 0 \notin Calls /\ 0 \notin Children
<1> QED
  BY BoundsAssumption DEF Calls, Children

\* The call that is made is the only new one and goes to the child that runs.
LEMMA RequestInv ==
    ASSUME DaemonInv, NEW c \in Calls, Request(c)
    PROVE  DaemonInv' /\ UNCHANGED effect
<1> USE NotZero DEF DaemonInv
<1>1. PICK p \in Children :
        /\ EnsureStarted(p)
        /\ to' = [to EXCEPT ![c] = p]
        /\ work' = [work EXCEPT ![c] = IF proc'[p] = "running" THEN "queued" ELSE "none"]
  BY DEF Request
<1>2. /\ outcome[c] = "unmade" /\ outcome' = [outcome EXCEPT ![c] = "pending"]
      /\ nextId' = nextId + 1 /\ idOf' = [idOf EXCEPT ![c] = nextId]
      /\ UNCHANGED <<heard, cancels, effect, out>>
  BY DEF Request
<1>3. /\ child' = p
      /\ proc' \in [Children -> {"unborn", "running", "failing", "failed", "exited"}]
      /\ \A q \in Children \ {p} : proc'[q] = proc[q]
      /\ proc[p] = "running" => proc'[p] = "running"
      /\ child # p => child = 0
  <2>1. CASE child = p /\ UNCHANGED <<child, proc>>
    BY <2>1 DEF DaemonTypeOK
  <2>2. CASE child = 0 /\ proc[p] = "unborn" /\ child' = p
             /\ \/ proc' = [proc EXCEPT ![p] = "running"]
                \/ proc' = [proc EXCEPT ![p] = "failing"]
    BY <2>2 DEF DaemonTypeOK
  <2> QED
    BY <1>1, <2>1, <2>2 DEF EnsureStarted
<1>4. DaemonTypeOK'
  <2>1. nextId' \in Nat /\ idOf' \in [Calls -> Nat]
    BY <1>2 DEF DaemonTypeOK
  <2>2. outcome' \in [Calls -> {"unmade", "pending"} \cup Settled]
    BY <1>2 DEF DaemonTypeOK
  <2>3. to' \in [Calls -> Children \cup {0}]
    BY <1>1 DEF DaemonTypeOK
  <2>4. work' \in [Calls -> Works]
    BY <1>1 DEF DaemonTypeOK, Works
  <2> QED
    BY <1>2, <1>3, <2>1, <2>2, <2>3, <2>4 DEF DaemonTypeOK
<1>5. Numbered'
  BY <1>2 DEF Numbered, DaemonTypeOK
<1>6. Traced'
  <2>1. c \notin out
    BY <1>2 DEF Traced
  <2>2. \A d \in Calls \ {c} : work'[d] = work[d] /\ outcome'[d] = outcome[d]
    BY <1>1, <1>2 DEF DaemonTypeOK
  <2>3. work'[c] \in {"queued", "none"} /\ outcome'[c] = "pending"
    BY <1>1, <1>2 DEF DaemonTypeOK
  <2> QED
    BY <1>2, <2>1, <2>2, <2>3 DEF Traced, DaemonTypeOK
<1>7. OneChild'
  <2>1. \A q \in Children : proc'[q] \in {"running", "failing", "failed"} => child' = q
    BY <1>3 DEF OneChild
  <2>2. ASSUME NEW d \in Calls, work'[d] \in {"queued", "running", "cancelled"}
        PROVE  to'[d] \in Children /\ proc'[to'[d]] = "running" /\ outcome'[d] # "rejected"
    <3>1. CASE d = c
      <4>1. to'[c] = p /\ outcome'[c] = "pending"
        BY <1>1, <1>2 DEF DaemonTypeOK
      <4>2. work'[c] # "none" => proc'[p] = "running"
        BY <1>1 DEF DaemonTypeOK
      <4> QED
        BY <2>2, <3>1, <4>1, <4>2
    <3>2. CASE d # c
      <4>1. to'[d] = to[d] /\ outcome'[d] = outcome[d] /\ work'[d] = work[d]
        BY <1>1, <1>2, <3>2 DEF DaemonTypeOK
      <4>2. to[d] \in Children /\ proc[to[d]] = "running" /\ outcome[d] # "rejected"
        BY <2>2, <4>1 DEF OneChild
      <4>3. proc'[to[d]] = "running"
        BY <1>3, <4>2
      <4> QED
        BY <4>1, <4>2, <4>3
    <3> QED
      BY <3>1, <3>2
  <2> QED
    BY <2>1, <2>2 DEF OneChild
<1>8. OwnAnswer' /\ OkMeansDone'
  <2>1. \A d \in Calls : outcome'[d] = "ok" => outcome[d] = "ok"
    BY <1>2 DEF DaemonTypeOK
  <2> QED
    BY <1>2, <2>1 DEF OwnAnswer, OkMeansDone
<1> QED
  BY <1>2, <1>4, <1>5, <1>6, <1>7, <1>8

LEMMA TimeoutInv ==
    ASSUME DaemonInv, NEW c \in Calls, Timeout(c)
    PROVE  DaemonInv' /\ UNCHANGED effect
<1> USE DEF DaemonInv
<1>1. outcome' = [outcome EXCEPT ![c] = "timed out"] /\ outcome[c] = "pending"
      /\ UNCHANGED <<nextId, child, idOf, heard, proc, to, work, effect, out>>
  BY DEF Timeout
<1>2. cancels' \subseteq Calls
  BY DEF Timeout, CancelSent, DaemonTypeOK
<1>3. outcome' \in [Calls -> {"unmade", "pending"} \cup Settled]
  BY <1>1 DEF DaemonTypeOK, Settled
<1>4. \A d \in Calls : /\ outcome'[d] = "unmade" => outcome[d] = "unmade"
                       /\ outcome[d] = "unmade" => outcome'[d] = "unmade"
                       /\ outcome'[d] = "rejected" => outcome[d] = "rejected"
                       /\ outcome'[d] = "ok" => outcome[d] = "ok"
  BY <1>1 DEF DaemonTypeOK
<1>5. DaemonTypeOK'
  BY <1>1, <1>2, <1>3 DEF DaemonTypeOK
<1>6. Numbered' /\ Traced' /\ OneChild' /\ OwnAnswer' /\ OkMeansDone'
  BY <1>1, <1>4 DEF Numbered, Traced, OneChild, OwnAnswer, OkMeansDone
<1> QED
  BY <1>1, <1>5, <1>6

\* An answer settles the call it belongs to, or none.
LEMMA HandleLineInv ==
    ASSUME DaemonInv, NEW a \in Calls, HandleLine(a)
    PROVE  DaemonInv' /\ UNCHANGED effect
<1> USE DEF DaemonInv
<1>1. a \in out /\ work[a] \in {"ok", "error"} /\ outcome[a] # "unmade"
  BY DEF HandleLine, Traced
<1>2. \A c \in Calls : c \in Settling(a) => c = a /\ outcome[c] = "pending"
  BY <1>1 DEF Settling, Pending, Numbered
<1>3. /\ out' = out \ {a}
      /\ UNCHANGED <<nextId, child, idOf, proc, to, work, cancels, effect>>
      /\ outcome' = [c \in Calls |-> IF c \in Settling(a) THEN work[a] ELSE outcome[c]]
      /\ heard' = [c \in Calls |-> IF c \in Settling(a) THEN a ELSE heard[c]]
  BY DEF HandleLine
<1>4. \A c \in Calls : \/ outcome'[c] = outcome[c] /\ heard'[c] = heard[c]
                       \/ c = a /\ outcome[c] = "pending" /\ outcome'[c] = work[c] /\ heard'[c] = c
  BY <1>2, <1>3
<1>5. DaemonTypeOK'
  <2>1. outcome' \in [Calls -> {"unmade", "pending"} \cup Settled]
    BY <1>1, <1>3 DEF DaemonTypeOK, Settled
  <2>2. heard' \in [Calls -> Calls \cup {0}]
    BY <1>3 DEF DaemonTypeOK
  <2> QED
    BY <1>3, <2>1, <2>2 DEF DaemonTypeOK
<1>6. \A c \in Calls : /\ outcome'[c] = "unmade" <=> outcome[c] = "unmade"
                       /\ outcome'[c] = "rejected" => outcome[c] = "rejected"
  BY <1>1, <1>4
<1>7. Numbered' /\ Traced' /\ OneChild'
  BY <1>3, <1>6 DEF Numbered, Traced, OneChild
<1>8. OwnAnswer'
  BY <1>4 DEF OwnAnswer
<1>9. OkMeansDone'
  BY <1>3, <1>4 DEF OkMeansDone, Traced
<1> QED
  BY <1>3, <1>5, <1>7, <1>8, <1>9

\* The steps of the child that leave the client alone.
LEMMA ChildInv ==
    ASSUME DaemonInv, NEW c \in Calls, TakeSlot(c) \/ CancelArrives(c) \/ Perform(c) \/ Answer(c)
    PROVE  /\ DaemonInv' /\ effect \subseteq effect'
           /\ \A d \in effect' \ effect : outcome[d] # "rejected"
<1> USE DEF DaemonInv
<1>1. UNCHANGED <<nextId, child, idOf, outcome, heard, proc, to>>
  BY DEF TakeSlot, CancelArrives, Perform, Answer, clientVars
<1>2. work' \in [Calls -> Works] /\ \A d \in Calls \ {c} : work'[d] = work[d]
  BY DEF TakeSlot, CancelArrives, Perform, Answer, DaemonTypeOK, Works
<1>3. /\ cancels' \subseteq Calls /\ out' \subseteq Calls /\ out \subseteq out' /\ out' \subseteq out \cup {c}
      /\ effect' \subseteq Calls /\ effect \subseteq effect' /\ effect' \subseteq effect \cup {c}
  BY DEF TakeSlot, CancelArrives, Perform, Answer, DaemonTypeOK
<1>4. \/ work[c] \notin {"queued", "running", "cancelled"} /\ work'[c] = work[c]
         /\ effect' = effect /\ out' = out
      \/ /\ work[c] \in {"queued", "running", "cancelled"}
         /\ \/ work'[c] \in {"queued", "running", "cancelled"} /\ out' = out
            \/ work'[c] = "error" /\ c \in out'
            \/ work'[c] = "ok" /\ c \in effect /\ c \in out'
  BY DEF TakeSlot, CancelArrives, Perform, Answer, DaemonTypeOK, Works
<1>5. work[c] \in {"queued", "running", "cancelled"} =>
        outcome[c] \notin {"unmade", "rejected"} /\ to[c] \in Children /\ proc[to[c]] = "running"
  BY DEF Traced, OneChild
<1>6. DaemonTypeOK'
  BY <1>1, <1>2, <1>3 DEF DaemonTypeOK
<1>7. Numbered' /\ OwnAnswer' /\ OkMeansDone'
  BY <1>1, <1>3 DEF Numbered, OwnAnswer, OkMeansDone
<1>8. Traced'
  <2>1. work[c] \in {"queued", "running", "cancelled"} => c \notin out
    BY DEF Traced
  <2> QED
    BY <1>1, <1>2, <1>3, <1>4, <1>5, <2>1 DEF Traced
<1>9. OneChild'
  BY <1>1, <1>2, <1>4, <1>5 DEF OneChild
<1> QED
  BY <1>3, <1>4, <1>5, <1>6, <1>7, <1>8, <1>9

LEMMA AllRejectedIs ==
    ASSUME DaemonInv
    PROVE  /\ AllRejected \in [Calls -> {"unmade", "pending"} \cup Settled]
           /\ \A c \in Calls : /\ AllRejected[c] = "unmade" <=> outcome[c] = "unmade"
                               /\ AllRejected[c] = "ok" <=> outcome[c] = "ok"
<1> QED
  BY DEF AllRejected, Pending, DaemonInv, DaemonTypeOK, Settled

\* With no child that runs, nobody works on what is rejected.
LEMMA SpawnErrorInv ==
    ASSUME DaemonInv, NEW p \in Children, SpawnError(p)
    PROVE  DaemonInv' /\ UNCHANGED effect
<1> USE DEF DaemonInv
<1>1. outcome' = AllRejected
      /\ proc' = [proc EXCEPT ![p] = "failed"] /\ proc[p] = "failing"
      /\ UNCHANGED <<nextId, child, idOf, heard, to, work, cancels, effect, out>>
  BY DEF SpawnError
<1>2. child = p /\ \A q \in Children : proc[q] # "running"
  BY <1>1 DEF OneChild
<1>3. \A c \in Calls : work[c] \notin {"queued", "running", "cancelled"}
  BY <1>2 DEF OneChild
<1>4. DaemonTypeOK'
  BY <1>1, AllRejectedIs DEF DaemonTypeOK
<1>5. Numbered' /\ Traced' /\ OwnAnswer' /\ OkMeansDone'
  BY <1>1, AllRejectedIs DEF Numbered, Traced, OwnAnswer, OkMeansDone
<1>6. \A q \in Children : proc'[q] \in {"running", "failing", "failed"} => child' = q
  BY <1>1, <1>2 DEF OneChild, DaemonTypeOK
<1>7. OneChild'
  BY <1>1, <1>3, <1>6 DEF OneChild
<1> QED
  BY <1>1, <1>4, <1>5, <1>7

\* The child that exits was the only one at work, and what it had not
\* answered it drops.
LEMMA ChildExitsInv ==
    ASSUME DaemonInv, NEW p \in Children, ChildExits(p)
    PROVE  DaemonInv' /\ UNCHANGED effect
<1> USE DEF DaemonInv
<1>1. /\ proc[p] = "running" /\ proc' = [proc EXCEPT ![p] = "exited"]
      /\ child' = 0 /\ outcome' = AllRejected /\ cancels' = {}
      /\ UNCHANGED <<nextId, idOf, heard, to, effect, out>>
  BY DEF ChildExits
<1>2. work' = [c \in Calls |-> IF to[c] = p /\ work[c] \in {"queued", "running", "cancelled"}
                               THEN "none" ELSE work[c]]
  BY DEF ChildExits
<1>3. \A q \in Children : q # p => proc[q] \notin {"running", "failing", "failed"}
  BY <1>1 DEF OneChild
<1>4. \A c \in Calls : work[c] \in {"queued", "running", "cancelled"} => to[c] = p
  BY <1>3 DEF OneChild
<1>5. \A c \in Calls : \/ work[c] \in {"queued", "running", "cancelled"} /\ work'[c] = "none"
                       \/ work[c] \notin {"queued", "running", "cancelled"} /\ work'[c] = work[c]
  BY <1>2, <1>4
<1>6. DaemonTypeOK'
  <2>1. work' \in [Calls -> Works]
    BY <1>2 DEF DaemonTypeOK, Works
  <2> QED
    BY <1>1, <2>1, AllRejectedIs DEF DaemonTypeOK
<1>7. Numbered' /\ OwnAnswer' /\ OkMeansDone'
  BY <1>1, AllRejectedIs DEF Numbered, OwnAnswer, OkMeansDone
<1>8. Traced'
  BY <1>1, <1>5, AllRejectedIs DEF Traced, DaemonTypeOK
<1>9. OneChild'
  <2>1. \A q \in Children : proc'[q] \notin {"running", "failing", "failed"}
    BY <1>1, <1>3 DEF DaemonTypeOK
  <2> QED
    BY <1>5, <2>1 DEF OneChild
<1> QED
  BY <1>1, <1>6, <1>7, <1>8, <1>9

\* The steps of the client and the child that no caller takes.
LEMMA DaemonStepInv ==
    ASSUME DaemonInv, DaemonStep
    PROVE  /\ DaemonInv' /\ effect \subseteq effect'
           /\ \A c \in effect' \ effect : outcome[c] # "rejected"
<1>1. ASSUME NEW c \in Calls, Timeout(c) PROVE DaemonInv' /\ UNCHANGED effect
  BY <1>1, TimeoutInv
<1>2. ASSUME NEW c \in Calls, HandleLine(c) PROVE DaemonInv' /\ UNCHANGED effect
  BY <1>2, HandleLineInv
<1>3. ASSUME NEW c \in Calls, TakeSlot(c) \/ CancelArrives(c) \/ Perform(c) \/ Answer(c)
      PROVE  /\ DaemonInv' /\ effect \subseteq effect'
             /\ \A d \in effect' \ effect : outcome[d] # "rejected"
  BY <1>3, ChildInv
<1>4. ASSUME NEW p \in Children, SpawnError(p) \/ ChildExits(p)
      PROVE  DaemonInv' /\ UNCHANGED effect
  BY <1>4, SpawnErrorInv, ChildExitsInv
<1> QED
  BY <1>1, <1>2, <1>3, <1>4 DEF DaemonStep

-----------------------------------------------------------------------------
(***************************************************************************)
(* Uploads.                                                                *)
(***************************************************************************)

\* A request that waits for the daemon has a call, and one that was told "ok"
\* has its image stored.
Waits ==
    /\ call \in [Images -> Calls \cup {0}] /\ stage \in [Images -> Stages] /\ put \subseteq Images
    /\ \A i \in Images : stage[i] = "daemon" => call[i] \in Calls

IInv == DaemonInv /\ Waits /\ OkMeansStored

LEMMA InitInv == Init => IInv
<1> SUFFICES ASSUME Init PROVE IInv
  OBVIOUS
<1> USE BoundsAssumption DEF Init, DaemonInit
<1>1. DaemonTypeOK
  BY DEF DaemonTypeOK, Calls, Children, Settled, Works
<1>2. Numbered /\ Traced /\ OneChild /\ OwnAnswer /\ OkMeansDone
  BY DEF Numbered, Traced, OneChild, OwnAnswer, OkMeansDone
<1>3. Waits /\ OkMeansStored
  BY DEF Waits, OkMeansStored, Stages
<1> QED
  BY <1>1, <1>2, <1>3 DEF IInv, DaemonInv

\* What a step leaves of the daemon client, whichever step it is.
LEMMA DaemonPart ==
    ASSUME DaemonInv, [Next]_vars
    PROVE  /\ DaemonInv' /\ effect \subseteq effect'
           /\ \A c \in effect' \ effect : outcome[c] # "rejected"
<1>1. CASE UNCHANGED daemonVars
  BY <1>1 DEF daemonVars, DaemonInv, DaemonTypeOK, Numbered, Traced, OneChild, OwnAnswer,
              OkMeansDone
<1>2. CASE DaemonStep
  BY <1>2, DaemonStepInv
<1>3. ASSUME NEW c \in Calls, Request(c) PROVE DaemonInv' /\ UNCHANGED effect
  BY <1>3, RequestInv
<1> QED
  BY <1>1, <1>2, <1>3 DEF Next, vars, Upload, DaemonMoves, Tick, Arrive, BadBody, ToDaemon,
                          Fallback, DaemonDelivered, DirectEnds

LEMMA NextInv == IInv /\ [Next]_vars => IInv'
<1> SUFFICES ASSUME IInv, [Next]_vars PROVE IInv'
  OBVIOUS
<1> USE DEF IInv, Waits, Stages
<1>1. DaemonInv' /\ effect \subseteq effect'
  BY DaemonPart
<1>2. CASE UNCHANGED uploadVars
  BY <1>1, <1>2 DEF uploadVars, OkMeansStored
<1>3. ASSUME NEW i \in Images, Arrive(i) \/ BadBody(i) \/ Fallback(i)
      PROVE  Waits' /\ OkMeansStored'
  BY <1>1, <1>3 DEF Arrive, BadBody, Fallback, OkMeansStored
<1>4. ASSUME NEW i \in Images, ToDaemon(i) PROVE Waits' /\ OkMeansStored'
  BY <1>1, <1>4 DEF ToDaemon, OkMeansStored
<1>5. ASSUME NEW i \in Images, DaemonDelivered(i) PROVE Waits' /\ OkMeansStored'
  <2>1. call[i] \in effect
    BY <1>5 DEF DaemonDelivered, DaemonInv, OkMeansDone
  <2> QED
    BY <1>1, <1>5, <2>1 DEF DaemonDelivered, OkMeansStored
<1>6. ASSUME NEW i \in Images, DirectEnds(i) PROVE Waits' /\ OkMeansStored'
  BY <1>1, <1>6 DEF DirectEnds, OkMeansStored
<1>7. CASE Tick
  BY <1>1, <1>7 DEF Tick, OkMeansStored
<1> QED
  BY <1>1, <1>2, <1>3, <1>4, <1>5, <1>6, <1>7 DEF Next, Upload, DaemonMoves, vars, uploadVars

LEMMA Invariance == Spec => []IInv
<1> QED
  BY InitInv, NextInv, PTL DEF Spec

-----------------------------------------------------------------------------
(***************************************************************************)
(* The sliding window.                                                     *)
(***************************************************************************)

\* The requests of class k that were let in, and those of one window.
LetIn(k) == {i \in Images : class[i] = k /\ stage[i] \notin {"new", "limited"}}
InWindow(k, t) == {i \in LetIn(k) : admitted[i] \in t..(t + Window - 1)}

\* The limiter keeps requests that were let in, and all of the last window.
Remembered ==
    \A k \in Classes :
        /\ IsFiniteSet(LetIn(k)) /\ hits[k] \subseteq LetIn(k)
        /\ \A i \in LetIn(k) : /\ admitted[i] <= now
                               /\ now - admitted[i] < Window => i \in hits[k]

Bounded == \A k \in Classes, t \in Nat : Cardinality(InWindow(k, t)) <= MaxHits[k]

RateInv == TypeOK /\ Remembered /\ Bounded

\* Nobody is let in or forgotten while the clock stands, and a window that
\* slides on keeps a part of what it held.
LEMMA QuietRate ==
    ASSUME TypeOK, Remembered, Bounded, TypeOK',
           now' >= now, UNCHANGED admitted,
           \A k \in Classes : LetIn(k)' = LetIn(k),
           \A k \in Classes : hits'[k] = hits[k] \/ hits'[k] = Counting(k)
    PROVE  Remembered' /\ Bounded'
<1> USE DEF TypeOK
<1>1. ASSUME NEW k \in Classes, NEW i \in LetIn(k)
      PROVE  /\ admitted'[i] <= now'
             /\ now' - admitted'[i] < Window => i \in hits'[k]
  <2>1. admitted[i] \in Nat /\ now \in Nat /\ now' \in Nat /\ Window \in Nat
    BY <1>1, WindowAssumption, LastTickAssumption DEF LetIn
  <2>2. admitted[i] <= now /\ (now - admitted[i] < Window => i \in hits[k])
    BY <1>1 DEF Remembered
  <2>3. now' - admitted[i] < Window => now - admitted[i] < Window
    BY <2>1, <2>2
  <2> QED
    BY <1>1, <2>1, <2>2, <2>3 DEF Counting
<1>2. \A k \in Classes : hits'[k] \subseteq hits[k]
  BY DEF Counting
<1>3. Remembered'
  BY <1>1, <1>2 DEF Remembered
<1>4. \A k \in Classes, t \in Nat : InWindow(k, t)' = InWindow(k, t)
  BY DEF InWindow
<1> QED
  BY <1>3, <1>4 DEF Bounded

\* One more is let in only where the last window has room for it.
LEMMA AdmitRate ==
    ASSUME TypeOK, Remembered, Bounded, TypeOK',
           NEW i \in Images, NEW k \in Classes, stage[i] = "new", ~Exceeded(k),
           hits' = [hits EXCEPT ![k] = Counting(k) \cup {i}],
           stage' = [stage EXCEPT ![i] = "reading"],
           class' = [class EXCEPT ![i] = k],
           admitted' = [admitted EXCEPT ![i] = now],
           UNCHANGED now
    PROVE  Remembered' /\ Bounded'
<1> USE WindowAssumption, LastTickAssumption, MaxHitsAssumption DEF TypeOK
<1>1. i \notin LetIn(k) /\ \A c \in Classes : i \notin LetIn(c)
  BY DEF LetIn
<1>2. LetIn(k)' = LetIn(k) \cup {i} /\ \A c \in Classes \ {k} : LetIn(c)' = LetIn(c)
  BY DEF LetIn
<1>3. \A c \in Classes : \A j \in LetIn(c) :
        j # i /\ admitted'[j] = admitted[j] /\ admitted[j] \in Nat
  BY <1>1 DEF LetIn
<1>4. admitted'[i] = now /\ now \in Nat /\ Window \in Nat \ {0}
  OBVIOUS
<1>5. IsFiniteSet(LetIn(k)) /\ IsFiniteSet(Counting(k))
  <2>1. Counting(k) \subseteq LetIn(k)
    BY DEF Counting, Remembered
  <2> QED
    BY <2>1, FS_Subset DEF Remembered
<1>6. Remembered'
  <2>1. ASSUME NEW c \in Classes \ {k}
        PROVE  /\ IsFiniteSet(LetIn(c)') /\ hits'[c] \subseteq LetIn(c)'
               /\ \A j \in LetIn(c)' : /\ admitted'[j] <= now'
                                       /\ now' - admitted'[j] < Window => j \in hits'[c]
    BY <1>2, <1>3 DEF Remembered
  <2>2. IsFiniteSet(LetIn(k)')
    <3>1. IsFiniteSet(LetIn(k) \cup {i})
      BY <1>5, FS_AddElement
    <3> QED
      BY <1>2, <3>1
  <2>3. hits'[k] = Counting(k) \cup {i} /\ hits'[k] \subseteq LetIn(k)'
    BY <1>2 DEF Counting, Remembered
  <2>4. ASSUME NEW j \in LetIn(k)'
        PROVE  /\ admitted'[j] <= now'
               /\ now' - admitted'[j] < Window => j \in hits'[k]
    <3>1. CASE j = i
      BY <1>4, <2>3, <3>1
    <3>2. CASE j \in LetIn(k)
      BY <1>3, <2>3, <3>2 DEF Counting, Remembered
    <3> QED
      BY <1>2, <3>1, <3>2
  <2> QED
    BY <2>1, <2>2, <2>3, <2>4 DEF Remembered
<1>7. ASSUME NEW c \in Classes, NEW t \in Nat
      PROVE  Cardinality(InWindow(c, t)') <= MaxHits[c]
  <2>0. Cardinality(InWindow(c, t)) <= MaxHits[c]
    BY DEF Bounded
  <2>1. CASE c = k /\ now \in t..(t + Window - 1)
    <3>1. InWindow(k, t)' = InWindow(k, t) \cup {i}
      BY <1>2, <1>3, <1>4, <2>1 DEF InWindow
    <3>2. InWindow(k, t) \subseteq Counting(k)
      <4> SUFFICES ASSUME NEW j \in InWindow(k, t) PROVE j \in Counting(k)
        OBVIOUS
      <4>1. j \in LetIn(k) /\ admitted[j] \in Nat /\ t <= admitted[j]
        BY <1>3 DEF InWindow
      <4>2. now - admitted[j] < Window
        BY <1>4, <2>1, <4>1
      <4> QED
        BY <4>1, <4>2 DEF Counting, Remembered
    <3>3. /\ IsFiniteSet(InWindow(k, t))
          /\ Cardinality(InWindow(k, t)) <= Cardinality(Counting(k))
      BY <1>5, <3>2, FS_Subset
    <3>4. Cardinality(Counting(k)) \in Nat /\ Cardinality(Counting(k)) < MaxHits[k]
      <4>1. Cardinality(Counting(k)) \in Nat
        BY <1>5, FS_CardinalityType
      <4>2. ~(Cardinality(Counting(k)) >= MaxHits[k]) /\ MaxHits[k] \in Nat
        BY DEF Exceeded
      <4> HIDE DEF TypeOK
      <4> QED
        BY <4>1, <4>2
    <3>5. i \notin InWindow(k, t)
      BY <1>1 DEF InWindow
    <3>6. Cardinality(InWindow(k, t) \cup {i}) = Cardinality(InWindow(k, t)) + 1
      BY <3>3, <3>5, FS_AddElement
    <3>7. Cardinality(InWindow(k, t)) \in Nat
      BY <3>3, FS_CardinalityType
    <3>8. Cardinality(InWindow(k, t) \cup {i}) <= MaxHits[k]
      <4>1. MaxHits[k] \in Nat
        OBVIOUS
      <4> HIDE DEF TypeOK
      <4> QED
        BY <3>3, <3>4, <3>6, <3>7, <4>1
    <3> QED
      BY <2>1, <3>1, <3>8
  <2>2. CASE ~(c = k /\ now \in t..(t + Window - 1))
    <3>1. InWindow(c, t)' = InWindow(c, t)
      BY <1>2, <1>3, <1>4, <2>2 DEF InWindow
    <3> QED
      BY <2>0, <3>1
  <2> QED
    BY <2>1, <2>2
<1> QED
  BY <1>6, <1>7 DEF Bounded

\* Uploads keep their types, on top of those of the daemon client.
LEMMA TypeStep == TypeOK /\ IInv /\ [Next]_vars => TypeOK'
<1> SUFFICES ASSUME TypeOK, IInv, [Next]_vars PROVE TypeOK'
  OBVIOUS
<1> USE WindowAssumption, LastTickAssumption DEF TypeOK, Stages
<1>1. DaemonTypeOK' /\ call' \in [Images -> Calls \cup {0}] /\ put' \subseteq Images
      /\ stage' \in [Images -> Stages]
  BY NextInv DEF IInv, DaemonInv, Waits
<1>2. ASSUME NEW i \in Images, Arrive(i) PROVE TypeOK'
  BY <1>1, <1>2 DEF Arrive, Counting
<1>3. ASSUME NEW i \in Images,
             BadBody(i) \/ ToDaemon(i) \/ Fallback(i) \/ DaemonDelivered(i) \/ DirectEnds(i)
      PROVE  TypeOK'
  BY <1>1, <1>3 DEF BadBody, ToDaemon, Fallback, DaemonDelivered, DirectEnds
<1>4. CASE DaemonMoves
  BY <1>1, <1>4 DEF DaemonMoves, uploadVars
<1>5. CASE Tick
  BY <1>1, <1>5 DEF Tick
<1>6. CASE UNCHANGED vars
  BY <1>1, <1>6 DEF vars, uploadVars
<1> QED
  BY <1>2, <1>3, <1>4, <1>5, <1>6 DEF Next, Upload

LEMMA RateStep == RateInv /\ IInv /\ [Next]_vars => RateInv'
<1> SUFFICES ASSUME RateInv, IInv, [Next]_vars PROVE RateInv'
  OBVIOUS
<1>0. TypeOK /\ Remembered /\ Bounded /\ TypeOK'
  BY TypeStep DEF RateInv
<1> USE WindowAssumption, LastTickAssumption DEF TypeOK, Stages
<1>1. ASSUME NEW i \in Images, Arrive(i) PROVE Remembered' /\ Bounded'
  <2>1. PICK k \in Classes :
          /\ class' = [class EXCEPT ![i] = k]
          /\ \/ /\ Exceeded(k)
                /\ hits' = [hits EXCEPT ![k] = Counting(k)]
                /\ stage' = [stage EXCEPT ![i] = "limited"]
                /\ UNCHANGED admitted
             \/ /\ ~Exceeded(k)
                /\ hits' = [hits EXCEPT ![k] = Counting(k) \cup {i}]
                /\ stage' = [stage EXCEPT ![i] = "reading"]
                /\ admitted' = [admitted EXCEPT ![i] = now]
    BY <1>1 DEF Arrive
  <2>2. stage[i] = "new" /\ UNCHANGED now
    BY <1>1 DEF Arrive
  <2>3. CASE ~Exceeded(k) /\ stage' = [stage EXCEPT ![i] = "reading"]
    BY <1>0, <2>1, <2>2, <2>3, AdmitRate
  <2>4. CASE stage' = [stage EXCEPT ![i] = "limited"]
    <3>1. \A c \in Classes : LetIn(c)' = LetIn(c)
      BY <1>0, <2>1, <2>2, <2>4 DEF LetIn
    <3>2. stage'[i] = "limited"
      BY <1>0, <2>4
    <3>3. UNCHANGED admitted /\ hits' = [hits EXCEPT ![k] = Counting(k)]
      BY <1>0, <2>1, <3>2
    <3> QED
      BY <1>0, <2>2, <3>1, <3>3, QuietRate
  <2> QED
    BY <2>1, <2>3, <2>4
<1>2. ASSUME NEW i \in Images,
             BadBody(i) \/ ToDaemon(i) \/ Fallback(i) \/ DaemonDelivered(i) \/ DirectEnds(i)
      PROVE  Remembered' /\ Bounded'
  <2>1. \A c \in Classes : LetIn(c)' = LetIn(c)
    BY <1>0, <1>2 DEF BadBody, ToDaemon, Fallback, DaemonDelivered, DirectEnds, LetIn
  <2>2. now' >= now /\ UNCHANGED <<hits, admitted>>
    BY <1>0, <1>2 DEF BadBody, ToDaemon, Fallback, DaemonDelivered, DirectEnds
  <2> QED
    BY <1>0, <2>1, <2>2, QuietRate
<1>3. CASE DaemonMoves \/ UNCHANGED vars
  <2>1. UNCHANGED uploadVars
    BY <1>3 DEF DaemonMoves, vars
  <2>2. now' >= now /\ UNCHANGED <<hits, admitted>> /\ \A c \in Classes : LetIn(c)' = LetIn(c)
    BY <1>0, <2>1 DEF uploadVars, LetIn
  <2> QED
    BY <1>0, <2>2, QuietRate DEF RateInv
<1>4. CASE Tick
  <2>1. now' >= now /\ UNCHANGED <<hits, admitted>> /\ \A c \in Classes : LetIn(c)' = LetIn(c)
    BY <1>0, <1>4 DEF Tick, LetIn
  <2> QED
    BY <1>0, <2>1, QuietRate DEF RateInv
<1> QED
  BY <1>0, <1>1, <1>2, <1>3, <1>4 DEF Next, Upload, RateInv

LEMMA RateInit == Init => RateInv
<1> SUFFICES ASSUME Init PROVE RateInv
  OBVIOUS
<1> USE MaxHitsAssumption, LastTickAssumption DEF Init
<1>1. TypeOK
  BY InitInv DEF IInv, DaemonInv, TypeOK, Stages
<1>2. \A k \in Classes : LetIn(k) = {}
  BY DEF LetIn
<1>3. \A k \in Classes, t \in Nat : InWindow(k, t) = {}
  BY <1>2 DEF InWindow
<1>4. Remembered
  BY <1>2, FS_EmptySet DEF Remembered
<1>5. Bounded
  BY <1>3, FS_EmptySet DEF Bounded
<1> QED
  BY <1>1, <1>4, <1>5 DEF RateInv

LEMMA RateInvariance == Spec => []RateInv
<1> QED
  BY RateInit, RateStep, Invariance, PTL DEF Spec

-----------------------------------------------------------------------------
(***************************************************************************)
(* The theorems.                                                           *)
(***************************************************************************)

\* A caller of the daemon is never handed the answer to another call, over
\* timeouts, late answers and children that are spawned again (client.ts).
THEOREM AnswersAreOwn == Spec => []OwnAnswer
<1> QED
  BY Invariance, PTL DEF IInv, DaemonInv

\* A call that was rejected because its child is gone is not performed later.
THEOREM RejectedStaysOver == Spec => RejectedIsOver
<1>1. IInv /\ [Next]_vars => [\A c \in effect' \ effect : outcome[c] # "rejected"]_daemonVars
  BY DaemonPart DEF IInv
<1> QED
  BY <1>1, Invariance, PTL DEF Spec, RejectedIsOver

\* A sender that is told "ok" has its image stored, whatever became of the
\* daemon, its call and the direct upload (uploads.ts).
THEOREM OkIsStored == Spec => []OkMeansStored
<1> QED
  BY Invariance, PTL DEF IInv

\* Every variable of the upload endpoint and the daemon client keeps its type.
THEOREM TypeCorrect == Spec => []TypeOK
<1> QED
  BY RateInvariance, PTL DEF RateInv

\* No window, wherever it starts, admits more uploads of a class from one
\* address than its limit, for every limit, window and number of requests
\* (uploadRateLimitExceeded, uploads.ts).
THEOREM RateIsBounded == Spec => []RateBound
<1>1. RateInv => RateBound
  <2> SUFFICES ASSUME RateInv, NEW k \in Classes, NEW t \in 0..LastTick
               PROVE  Cardinality({i \in Images : /\ class[i] = k
                                                  /\ stage[i] \notin {"new", "limited"}
                                                  /\ admitted[i] \in t..(t + Window - 1)})
                        <= MaxHits[k]
    BY DEF RateBound
  <2>1. InWindow(k, t) = {i \in Images : /\ class[i] = k
                                         /\ stage[i] \notin {"new", "limited"}
                                         /\ admitted[i] \in t..(t + Window - 1)}
    BY DEF InWindow, LetIn
  <2>2. t \in Nat
    BY LastTickAssumption
  <2>3. Cardinality(InWindow(k, t)) <= MaxHits[k]
    BY <2>2 DEF RateInv, Bounded
  <2> QED
    BY <2>1, <2>3
<1> QED
  BY <1>1, RateInvariance, PTL
=============================================================================
