------------------------------ MODULE DaemonClient ------------------------------
(***************************************************************************)
(* The MCP server's line protocol to the hostr daemon: HostrDaemonClient   *)
(* (daemon/client.ts) and the request loop of the child it spawns          *)
(* (hostr_cli/lib/src/daemon/stdio_daemon.dart).                           *)
(*                                                                         *)
(* A call is written to the child at once and settles once: by its answer, *)
(* by its timeout, or because the child exits.  The child serves a bounded *)
(* number of calls at a time, in the order they came.  A timeout sends a   *)
(* cancel line, which passes the queue but finds only calls that are being *)
(* served.  The death of a child and its "exit" event are one step.        *)
(***************************************************************************)
EXTENDS Naturals, FiniteSets

CONSTANTS
    MaxCalls,    \* bound of the calls that are made
    MaxChildren, \* bound of the children that are spawned
    Slots,       \* maxConcurrentRequests
    Faults       \* what may go wrong, a subset of FaultPoints

FaultPoints == {"exit", "spawn error", "error"}

ASSUME BoundsAssumption == MaxCalls \in Nat /\ MaxChildren \in Nat
ASSUME SlotsAssumption == Slots \in Nat \ {0}
ASSUME FaultsAssumption == Faults \subseteq FaultPoints

\* In the order they are made and spawned.
Calls    == 1..MaxCalls
Children == 1..MaxChildren

VARIABLES
    \* HostrDaemonClient.
    nextId,     \* the next request id
    child,      \* this.child, 0 for null
    idOf,       \* the id of each call that was made
    outcome,    \* how each call stands; the pending map holds the "pending" ones
    heard,      \* the call whose answer settled each call, 0 for none
    \* The children.
    proc,       \* each child's process
    to,         \* the child each call was written to
    work,       \* where the child is with each call
    cancels,    \* calls whose cancel line is on its way to the child
    effect,     \* calls whose action was performed
    out         \* calls whose answer is on its way back

clientVars == <<nextId, child, idOf, outcome, heard>>
daemonVars == <<nextId, child, idOf, outcome, heard, proc, to, work, cancels, effect, out>>

Settled == {"ok", "error", "timed out", "rejected"}
Works   == {"none", "queued", "running", "cancelled", "ok", "error"}

DaemonTypeOK ==
    /\ nextId \in Nat
    /\ child \in Children \cup {0}
    /\ idOf \in [Calls -> Nat]
    /\ outcome \in [Calls -> {"unmade", "pending"} \cup Settled]
    /\ heard \in [Calls -> Calls \cup {0}]
    /\ proc \in [Children -> {"unborn", "running", "failing", "failed", "exited"}]
    /\ to \in [Calls -> Children \cup {0}]
    /\ work \in [Calls -> Works]
    /\ cancels \subseteq Calls
    /\ effect \subseteq Calls
    /\ out \subseteq Calls

DaemonInit ==
    /\ nextId = 1
    /\ child = 0
    /\ idOf = [c \in Calls |-> 0]
    /\ outcome = [c \in Calls |-> "unmade"]
    /\ heard = [c \in Calls |-> 0]
    /\ proc = [p \in Children |-> "unborn"]
    /\ to = [c \in Calls |-> 0]
    /\ work = [c \in Calls |-> "none"]
    /\ cancels = {}
    /\ effect = {}
    /\ out = {}

Pending == {c \in Calls : outcome[c] = "pending"}

\* The calls of Pending are rejected together.
AllRejected == [c \in Calls |-> IF c \in Pending THEN "rejected" ELSE outcome[c]]

-----------------------------------------------------------------------------
(***************************************************************************)
(* request().                                                              *)
(***************************************************************************)

\* ensureStarted: a child that is there is used, whatever became of it.
EnsureStarted(p) ==
    \/ child = p /\ UNCHANGED <<child, proc>>
    \/ /\ child = 0
       /\ proc[p] = "unborn"
       /\ \A q \in Children : q < p => proc[q] # "unborn"
       /\ child' = p
       /\ \/ proc' = [proc EXCEPT ![p] = "running"]
          \/ "spawn error" \in Faults /\ proc' = [proc EXCEPT ![p] = "failing"]

\* Mutated form of Request: each child has its own request ids.
RequestPerChild(c) ==
    /\ outcome[c] = "unmade"
    /\ \A d \in Calls : d < c => outcome[d] # "unmade"
    /\ \E p \in Children :
        /\ EnsureStarted(p)
        /\ to' = [to EXCEPT ![c] = p]
        /\ work' = [work EXCEPT ![c] = IF proc'[p] = "running" THEN "queued" ELSE "none"]
        /\ idOf' = [idOf EXCEPT ![c] = IF child = 0 THEN 1 ELSE nextId]
    /\ nextId' = idOf'[c] + 1
    /\ outcome' = [outcome EXCEPT ![c] = "pending"]
    /\ UNCHANGED <<heard, cancels, effect, out>>

\* Call c is registered under the next id and written to the child, which
\* reads it unless it never started.
Request(c) ==
    /\ outcome[c] = "unmade"
    /\ \A d \in Calls : d < c => outcome[d] # "unmade"
    /\ \E p \in Children :
        /\ EnsureStarted(p)
        /\ to' = [to EXCEPT ![c] = p]
        /\ work' = [work EXCEPT ![c] = IF proc'[p] = "running" THEN "queued" ELSE "none"]
    /\ nextId' = nextId + 1
    /\ idOf' = [idOf EXCEPT ![c] = nextId]
    /\ outcome' = [outcome EXCEPT ![c] = "pending"]
    /\ UNCHANGED <<heard, cancels, effect, out>>

\* cancelDaemonRequest: the child, if there is one, is asked to stop.  A line
\* to a child the call was not written to finds nothing.
CancelSent(c) == IF child = to[c] /\ work[c] # "none" THEN cancels \cup {c} ELSE cancels

\* The caller is told.
Timeout(c) ==
    /\ outcome[c] = "pending"
    /\ outcome' = [outcome EXCEPT ![c] = "timed out"]
    /\ cancels' = CancelSent(c)
    /\ UNCHANGED <<nextId, child, idOf, heard, proc, to, work, effect, out>>

\* handleLine: the answer settles the pending call with its id, if there is
\* one, and is dropped otherwise.
Settling(a) == {c \in Pending : idOf[c] = idOf[a]}

HandleLine(a) ==
    /\ a \in out
    /\ out' = out \ {a}
    /\ outcome' = [c \in Calls |-> IF c \in Settling(a) THEN work[a] ELSE outcome[c]]
    /\ heard' = [c \in Calls |-> IF c \in Settling(a) THEN a ELSE heard[c]]
    /\ UNCHANGED <<nextId, child, idOf, proc, to, work, cancels, effect>>

\* "error" of a child that could not be spawned: this.child stays.
SpawnError(p) ==
    /\ proc[p] = "failing"
    /\ proc' = [proc EXCEPT ![p] = "failed"]
    /\ outcome' = AllRejected
    /\ UNCHANGED <<nextId, child, idOf, heard, to, work, cancels, effect, out>>

\* Mutated form of ChildExits: the child ends what it has begun.
ChildExitsAtLeisure(p) ==
    /\ "exit" \in Faults
    /\ proc[p] = "running"
    /\ proc' = [proc EXCEPT ![p] = "exited"]
    /\ child' = 0
    /\ outcome' = AllRejected
    /\ cancels' = {}
    /\ UNCHANGED <<nextId, idOf, heard, to, work, effect, out>>

\* "exit": what the child had not answered is lost.
ChildExits(p) ==
    /\ "exit" \in Faults
    /\ proc[p] = "running"
    /\ proc' = [proc EXCEPT ![p] = "exited"]
    /\ child' = 0
    /\ outcome' = AllRejected
    /\ work' = [c \in Calls |-> IF to[c] = p /\ work[c] \in {"queued", "running", "cancelled"}
                                THEN "none" ELSE work[c]]
    /\ cancels' = {}
    /\ UNCHANGED <<nextId, idOf, heard, to, effect, out>>

-----------------------------------------------------------------------------
(***************************************************************************)
(* The child.                                                              *)
(***************************************************************************)
Serving(p) == {c \in Calls : to[c] = p /\ work[c] \in {"running", "cancelled"}}

\* The semaphore lets the oldest waiting call in; its cancellation token
\* exists from here on.
TakeSlot(c) ==
    /\ work[c] = "queued"
    /\ Cardinality(Serving(to[c])) < Slots
    /\ \A d \in Calls : to[d] = to[c] /\ work[d] = "queued" => c <= d
    /\ work' = [work EXCEPT ![c] = "running"]
    /\ UNCHANGED <<clientVars, proc, to, cancels, effect, out>>

CancelArrives(c) ==
    /\ c \in cancels
    /\ cancels' = cancels \ {c}
    /\ work' = [work EXCEPT ![c] = IF @ = "running" THEN "cancelled" ELSE @]
    /\ UNCHANGED <<clientVars, proc, to, effect, out>>

\* The action is performed; a cancelled one may be past its last check.
Perform(c) ==
    /\ work[c] \in {"running", "cancelled"}
    /\ c \notin effect
    /\ effect' = effect \cup {c}
    /\ UNCHANGED <<clientVars, proc, to, work, cancels, out>>

\* The answer: success when the action was performed, an error when it was
\* cancelled or failed, before or after its effect.
Answer(c) ==
    /\ work[c] \in {"running", "cancelled"}
    /\ \/ c \in effect /\ work' = [work EXCEPT ![c] = "ok"]
       \/ /\ work[c] = "cancelled" \/ "error" \in Faults
          /\ work' = [work EXCEPT ![c] = "error"]
    /\ out' = out \cup {c}
    /\ UNCHANGED <<clientVars, proc, to, cancels, effect>>

\* Everything but the making of calls, which is the callers' part.
DaemonStep ==
    \/ \E c \in Calls : Timeout(c) \/ HandleLine(c) \/ TakeSlot(c) \/ CancelArrives(c)
                        \/ Perform(c) \/ Answer(c)
    \/ \E p \in Children : SpawnError(p) \/ ChildExits(p)

-----------------------------------------------------------------------------
(***************************************************************************)
(* Properties.                                                             *)
(***************************************************************************)

\* A caller is never handed the answer to somebody else's call, in spite of
\* timeouts, respawned children and answers that come late (nextId, pending).
OwnAnswer == \A c \in Calls : heard[c] \in {0, c}

\* A caller that is told "ok" can rely on it: the action was performed, by the
\* child the call was written to.
OkMeansDone == \A c \in Calls : outcome[c] = "ok" => c \in effect /\ heard[c] = c

\* A call that was rejected because its child is gone is not performed after
\* the caller heard so: whoever repeats it finds the world as it is.
RejectedIsOver ==
    [][\A c \in effect' \ effect : outcome[c] # "rejected"]_daemonVars
=============================================================================
