------------------------------ MODULE McpSessions ------------------------------
(***************************************************************************)
(* The accounts of an MCP session: the session store                       *)
(* (auth/session-store.ts), the tool handlers of mcp/server.ts that change *)
(* it, and the tool lists of the session's open connections.               *)
(*                                                                         *)
(* One OAuth session; a client may hold several connections to it and make *)
(* several tool calls at once.  Every handler runs from one await to the   *)
(* next in one step: what it read before an await may be old after it.     *)
(***************************************************************************)
EXTENDS Naturals, Sequences, FiniteSets, SequencesExt

CONSTANTS
    Accounts,   \* pubkeys
    Transports, \* connections, each opened once
    Handlers,   \* the tool calls and initializations that may be in flight
    Faults,     \* what may go wrong, a subset of FaultPoints
    None        \* no account

FaultPoints == {"write", "daemon", "restart"}

ASSUME NoneAssumption == None \notin Accounts
ASSUME FaultsAssumption == Faults \subseteq FaultPoints

VARIABLES
    mem,        \* the session as the process holds it
    disk,       \* the session in the store's file
    conn,       \* each connection: "new", "open" or "closed"
    shown,      \* the account whose role tools a connection lists, None for none
    manage,     \* connections that list the switch and logout tools
    doing,      \* what each handler is doing
    swaps,      \* accounts with a non-terminal swap
    gone,       \* history: accounts removed for good and not connected since
    fresh       \* history: the connection whose account call ran alone and last

store == <<mem, disk, gone>>
lists == <<conn, shown, manage, fresh>>
sessionsVars == <<mem, disk, conn, shown, manage, doing, swaps, gone, fresh>>

NoCall == [pc |-> "idle"]

\* A handler: its connection, the account it is about, the accounts it has
\* still to log out, and the daemon's answer.
Busy(pc, t, p, todo, alone) ==
    [pc |-> pc, t |-> t, p |-> p, todo |-> todo, alone |-> alone]

Session == [accounts : Seq(Accounts), active : Accounts \cup {None}]
NoSession == [accounts |-> <<>>, active |-> None]

SessionsInit ==
    /\ mem = NoSession
    /\ disk = NoSession
    /\ conn = [t \in Transports |-> "new"]
    /\ shown = [t \in Transports |-> None]
    /\ manage = {}
    /\ doing = [h \in Handlers |-> NoCall]
    /\ swaps = {}
    /\ gone = {}
    /\ fresh = None

-----------------------------------------------------------------------------
(***************************************************************************)
(* The store.                                                              *)
(***************************************************************************)
First(as) == IF as = <<>> THEN None ELSE as[1]

\* addOrUpdateAccount, switchActive, removeAccount.  A session has an account
\* once, so that the filter of removeAccount drops its one entry.
Added(s, p) ==
    [accounts |-> IF Contains(s.accounts, p) THEN s.accounts ELSE Append(s.accounts, p),
     active |-> p]

Switched(s, p) == [s EXCEPT !.active = p]

\* Mutated form of Removed: the active account is left as it is.
RemovedOnly(s, p) == [s EXCEPT !.accounts = RemoveFirst(@, p)]

Removed(s, p) ==
    LET rest == RemoveFirst(s.accounts, p)
    IN  [accounts |-> rest, active |-> IF s.active = p THEN First(rest) ELSE s.active]

\* persist: the file is replaced as a whole, or the caller gets an exception
\* and the change stays in memory only.
Saved == disk' = mem'
NotSaved == "write" \in Faults /\ UNCHANGED disk

-----------------------------------------------------------------------------
(***************************************************************************)
(* Handlers.                                                               *)
(***************************************************************************)
ListCalls == {h \in Handlers : doing[h].pc \notin {"idle", "acting", "asking"}}

\* Handler h begins: the account calls that are in flight do not run alone.
Begin(h, busy) ==
    doing' = [g \in Handlers |->
               IF g = h THEN busy
               ELSE IF g \in ListCalls THEN [doing[g] EXCEPT !.alone = FALSE]
               ELSE doing[g]]

Goto(h, pc) == doing' = [doing EXCEPT ![h].pc = pc]
End(h) == doing' = [doing EXCEPT ![h] = NoCall]

Alone == ListCalls = {}

\* handleMcpRequest, for an initialize request.
Initialize(h, t) ==
    /\ doing[h] = NoCall
    /\ conn[t] = "new"
    /\ Begin(h, Busy("lookup", t, mem.active, <<>>, Alone))
    /\ fresh' = None
    /\ UNCHANGED <<store, conn, shown, manage, swaps>>

\* hostr_session_switch: a failed write reads as an unknown account.
Switch(h, t, p) ==
    /\ doing[h] = NoCall
    /\ conn[t] = "open"
    /\ t \in manage
    /\ Contains(mem.accounts, p)
    /\ mem' = Switched(mem, p)
    /\ \/ Saved /\ Begin(h, Busy("lookup", t, p, <<>>, Alone))
       \/ NotSaved /\ Begin(h, NoCall)
    /\ fresh' = None
    /\ UNCHANGED <<conn, shown, manage, swaps, gone>>

\* hostr_session_logout of every account, of a named one, or of the active one.
LogoutTargets ==
    {<<p>> : p \in Accounts} \cup (IF mem.accounts = <<>> THEN {} ELSE {mem.accounts})

Logout(h, t) ==
    /\ doing[h] = NoCall
    /\ conn[t] = "open"
    /\ t \in manage
    /\ \E todo \in LogoutTargets : Begin(h, Busy("logout", t, Head(todo), todo, Alone))
    /\ fresh' = None
    /\ UNCHANGED <<store, conn, shown, manage, swaps>>

\* HostrDaemon.logoutSession looks for pending swaps, and refuses with a
\* result that says so, or goes on.
DaemonChecks(h) ==
    /\ doing[h].pc = "logout"
    /\ \/ doing[h].p \in swaps /\ Goto(h, "answered")
       \/ doing[h].p \notin swaps /\ Goto(h, "signing out")
       \/ "daemon" \in Faults /\ Goto(h, "answered")
    /\ UNCHANGED <<store, lists, swaps>>

DaemonSignsOut(h) ==
    /\ doing[h].pc = "signing out"
    /\ Goto(h, "answered")
    /\ UNCHANGED <<store, lists, swaps>>

\* The daemon call times out or its child dies, and the tool call fails.
LogoutLost(h) ==
    /\ "daemon" \in Faults
    /\ doing[h].pc \in {"logout", "signing out"}
    /\ End(h)
    /\ UNCHANGED <<store, lists, swaps>>

\* Whatever the daemon's result says, the account leaves the session; then the
\* next one is logged out, or the tools of the account that is left looked up.
LogoutAnswered(h) ==
    LET rest == Tail(doing[h].todo)
    IN  /\ doing[h].pc = "answered"
        /\ mem' = Removed(mem, doing[h].p)
        /\ \/ /\ Saved
              /\ gone' = gone \cup {doing[h].p}
              /\ doing' = [doing EXCEPT
                            ![h].todo = rest,
                            ![h].pc = IF rest = <<>> THEN "lookup" ELSE "logout",
                            ![h].p  = IF rest = <<>> THEN mem'.active ELSE Head(rest)]
           \/ /\ NotSaved
              /\ End(h)
              /\ UNCHANGED gone
        /\ UNCHANGED <<lists, swaps>>

\* hostr_session_connect up to its answer: the user's signer picks p.
Connect(h, t, p) ==
    /\ doing[h] = NoCall
    /\ conn[t] = "open"
    /\ Begin(h, Busy("profile", t, p, <<>>, Alone))
    /\ fresh' = None
    /\ UNCHANGED <<store, conn, shown, manage, swaps>>

ProfileShown(h) ==
    /\ doing[h].pc = "profile"
    /\ mem' = Added(mem, doing[h].p)
    /\ gone' = gone \ {doing[h].p}
    /\ \/ Saved /\ Goto(h, "lookup")
       \/ NotSaved /\ End(h)
    /\ UNCHANGED <<lists, swaps>>

ProfileLost(h) ==
    /\ "daemon" \in Faults
    /\ doing[h].pc = "profile"
    /\ End(h)
    /\ UNCHANGED <<store, lists, swaps>>

\* Mutated form of Listed: the session tools stay as they were.
ListedRolesOnly(h) ==
    LET t == doing[h].t
    IN  /\ doing[h].pc = "lookup"
        /\ IF conn[t] = "closed" THEN UNCHANGED lists ELSE
             /\ conn' = [conn EXCEPT ![t] = "open"]
             /\ shown' = [shown EXCEPT ![t] = doing[h].p]
             /\ manage' = IF conn[t] = "new" /\ mem.accounts # <<>> THEN manage \cup {t} ELSE manage
             /\ fresh' = IF doing[h].alone THEN t ELSE None
        /\ End(h)
        /\ UNCHANGED <<store, swaps>>

\* visibleActionIdsForPubkey answered, or fell back to what everybody sees.
RolesOf(p) == {p} \cup (IF "daemon" \in Faults THEN {None} ELSE {})

\* refreshSessionToolVisibility, which looks at the store again.
SessionTools(t) == IF mem.accounts = <<>> THEN manage \ {t} ELSE manage \cup {t}

\* createServer, or refreshToolVisibility.  The list of a closed connection is
\* nobody's.
Listed(h) ==
    LET t == doing[h].t
    IN  /\ doing[h].pc = "lookup"
        /\ IF conn[t] = "closed" THEN UNCHANGED lists ELSE
             /\ conn' = [conn EXCEPT ![t] = "open"]
             /\ \E roles \in RolesOf(doing[h].p) : shown' = [shown EXCEPT ![t] = roles]
             /\ manage' = SessionTools(t)
             /\ fresh' = IF doing[h].alone THEN t ELSE None
        /\ End(h)
        /\ UNCHANGED <<store, swaps>>

\* hostr_session_accounts asks for the profile and the signer of every account
\* it finds in the session.
AskAccounts(h, t) ==
    /\ doing[h] = NoCall
    /\ conn[t] = "open"
    /\ doing' = [doing EXCEPT ![h] = Busy("asking", t, None, mem.accounts, FALSE)]
    /\ UNCHANGED <<store, lists, swaps>>

\* Mutated form of AccountsTold: the profile of an account that was removed
\* meanwhile is kept with addOrUpdateAccount.
AccountsToldOfRemoved(h) ==
    /\ doing[h].pc = "asking"
    /\ End(h)
    /\ IF doing[h].todo = <<>> \/ mem.accounts = <<>> THEN UNCHANGED <<mem, disk>>
       ELSE /\ mem' = [Added(mem, Head(doing[h].todo)) EXCEPT !.active = mem.active]
            /\ Saved
    /\ UNCHANGED <<gone, lists, swaps>>

\* sessionAccountsPayload keeps the profiles of those that are still there
\* (updateAccountMetadata), which writes the session as it is by now.
AccountsTold(h) ==
    /\ doing[h].pc = "asking"
    /\ End(h)
    /\ mem' = mem
    /\ IF ToSet(doing[h].todo) \cap ToSet(mem.accounts) = {} THEN UNCHANGED disk
       ELSE Saved \/ NotSaved
    /\ UNCHANGED <<gone, lists, swaps>>

\* Any other tool: performed for the account that was active when it began.
Act(h, t) ==
    /\ doing[h] = NoCall
    /\ conn[t] = "open"
    /\ mem.active # None
    /\ doing' = [doing EXCEPT ![h] = Busy("acting", t, mem.active, <<>>, FALSE)]
    /\ UNCHANGED <<store, lists, swaps>>

\* A booking leaves a swap behind.
Performed(h) ==
    /\ doing[h].pc = "acting"
    /\ \/ UNCHANGED swaps
       \/ swaps' = swaps \cup {doing[h].p}
    /\ End(h)
    /\ UNCHANGED <<store, lists>>

SwapEnds(p) ==
    /\ p \in swaps
    /\ swaps' = swaps \ {p}
    /\ UNCHANGED <<store, lists, doing>>

Close(t) ==
    /\ conn[t] = "open"
    /\ conn' = [conn EXCEPT ![t] = "closed"]
    /\ fresh' = IF fresh = t THEN None ELSE fresh
    /\ shown' = [shown EXCEPT ![t] = None]
    /\ manage' = manage \ {t}
    /\ UNCHANGED <<store, doing, swaps>>

\* The process is restarted: connections and calls are lost, and the session
\* is loaded as sanitizeSession leaves it.
Restart ==
    /\ "restart" \in Faults
    /\ mem' = [disk EXCEPT !.active = IF Contains(disk.accounts, @) THEN @
                                      ELSE First(disk.accounts)]
    /\ conn' = [t \in Transports |-> IF conn[t] = "open" THEN "closed" ELSE conn[t]]
    /\ doing' = [h \in Handlers |-> NoCall]
    /\ shown' = [t \in Transports |-> None]
    /\ manage' = {}
    /\ fresh' = None
    /\ UNCHANGED <<disk, gone, swaps>>

SessionsNext ==
    \/ \E h \in Handlers, t \in Transports :
          \/ Initialize(h, t) \/ Logout(h, t) \/ Act(h, t) \/ AskAccounts(h, t)
          \/ \E p \in Accounts : Switch(h, t, p) \/ Connect(h, t, p)
    \/ \E h \in Handlers :
          \/ DaemonChecks(h) \/ DaemonSignsOut(h) \/ LogoutLost(h) \/ LogoutAnswered(h)
          \/ ProfileShown(h) \/ ProfileLost(h) \/ Listed(h) \/ Performed(h)
          \/ AccountsTold(h)
    \/ \E p \in Accounts : SwapEnds(p)
    \/ \E t \in Transports : Close(t)
    \/ Restart

SessionsSpec == SessionsInit /\ [][SessionsNext]_sessionsVars

-----------------------------------------------------------------------------
(***************************************************************************)
(* Properties.                                                             *)
(***************************************************************************)
Sound(s) ==
    /\ s \in Session
    /\ IsInjective(s.accounts)
    /\ IF s.accounts = <<>> THEN s.active = None ELSE Contains(s.accounts, s.active)

\* The active account is one of the session's accounts, and there is one as
\* long as there are accounts, in memory and in the file, whatever handlers
\* interleave and whichever writes fail.
SessionSound == Sound(mem) /\ Sound(disk)

\* An account that was logged out is not in the session again, not after a
\* restart and not through a handler that read the session before, until
\* somebody connects it again.
LoggedOutStaysOut ==
    \A p \in gone : ~Contains(mem.accounts, p) /\ ~Contains(disk.accounts, p)

\* The client's tools are those of the active account, or everybody's when the
\* daemon could not be asked, once an account call that no other one
\* overlapped has succeeded.
AloneMeansCurrent ==
    fresh # None =>
        /\ shown[fresh] \in {mem.active, None}
        /\ fresh \in manage <=> mem.accounts # <<>>

\* "Hostr refuses to log out an account with non-terminal swaps in progress"
\* (mcp/server.ts, hostr_session_logout; test/session.test.mjs checks it
\* against a daemon that throws).
NoSwapLoggedOut ==
    [][\A p \in swaps : Contains(mem.accounts, p) => Contains(mem'.accounts, p)]_sessionsVars
=============================================================================
