------------------------------ MODULE Sessions ------------------------------
(***************************************************************************)
(* The sessions of the gateway process: a registry in memory, loaded when  *)
(* the process opens and written through to PostgreSQL. A handler changes  *)
(* the memory first and awaits the write, so other handlers, a failure or  *)
(* a crash come between the two.                                           *)
(***************************************************************************)
EXTENDS Naturals

CONSTANTS
    Sids,          \* session identifiers
    Principals,
    PrincipalOf,   \* whose session each is
    Calls,         \* handlers that may await a write at the same time
    MaxClock       \* BOUND on the seconds

ASSUME SessionAssumption ==
    /\ PrincipalOf \in [Sids -> Principals]
    /\ Principals # {}
    /\ MaxClock \in Nat \ {0}

VARIABLES
    clock,   \* seconds
    issued,  \* the second each session's token was signed in; 0: not yet
    cache,   \* _sessions, _revoked_sids, _revoked_principals
    tables,  \* the same as PostgreSQL rows
    ready,   \* the process is up and has loaded the tables
    writes,  \* the write each handler awaits
    ended    \* the sessions a caller was told are revoked

sessionVars == <<clock, issued, cache, tables, ready, writes, ended>>

Registry == [sessions : SUBSET Sids, revoked : SUBSET Sids,
             before : [Principals -> 0..MaxClock]]
EmptyRegistry == [sessions |-> {}, revoked |-> {}, before |-> [p \in Principals |-> 0]]

Write == [kind : {"none", "login", "revoke_sid", "revoke_principal"}, sids : SUBSET Sids,
          ending : SUBSET Sids, principal : Principals, ts : 0..MaxClock]
NoWrite == [kind |-> "none", sids |-> {}, ending |-> {},
            principal |-> CHOOSE p \in Principals : TRUE, ts |-> 0]

SessionTypeOK ==
    /\ clock \in 1..MaxClock
    /\ issued \in [Sids -> 0..MaxClock]
    /\ cache \in Registry
    /\ tables \in Registry
    /\ ready \in BOOLEAN
    /\ writes \in [Calls -> Write]
    /\ ended \in SUBSET Sids

SessionInit ==
    /\ clock = 1
    /\ issued = [s \in Sids |-> 0]
    /\ cache = EmptyRegistry
    /\ tables = EmptyRegistry
    /\ ready = TRUE
    /\ writes = [c \in Calls |-> NoWrite]
    /\ ended = {}

-----------------------------------------------------------------------------

\* is_revoked: until the tables are loaded every session is refused.
Revoked(s) ==
    \/ ~ready
    \/ s \in cache.revoked
    \/ issued[s] < cache.before[PrincipalOf[s]]

\* A token with this session would pass parse_session_token.
Accepted(s) == issued[s] # 0 /\ ~Revoked(s)

Tick ==
    /\ clock < MaxClock
    /\ clock' = clock + 1
    /\ UNCHANGED <<issued, cache, tables, ready, writes, ended>>

\* register_session
Register(s) ==
    /\ ready
    /\ issued[s] = 0
    /\ issued' = [issued EXCEPT ![s] = clock]
    /\ cache' = [cache EXCEPT !.sessions = @ \cup {s}, !.revoked = @ \ {s}]

\* The wallet's single sign-on registers its session and does not persist it.
LoginWallet(s) ==
    /\ Register(s)
    /\ UNCHANGED <<clock, tables, ready, writes, ended>>

\* _issue_session: registered, then persisted.
Login(c, s) ==
    /\ writes[c] = NoWrite
    /\ Register(s)
    /\ writes' = [writes EXCEPT ![c] = [NoWrite EXCEPT !.kind = "login", !.sids = {s}]]
    /\ UNCHANGED <<clock, tables, ready, ended>>

\* A signed-in caller may end its own session or another the registry lists.
RevokeSid(c, caller, s) ==
    /\ writes[c] = NoWrite
    /\ Accepted(caller)
    /\ s # caller => s \in cache.sessions /\ PrincipalOf[s] = PrincipalOf[caller]
    /\ cache' = [cache EXCEPT !.sessions = @ \ {s}, !.revoked = @ \cup {s}]
    /\ writes' = [writes EXCEPT ![c] =
        [NoWrite EXCEPT !.kind = "revoke_sid", !.sids = {s}, !.ending = {s}]]
    /\ UNCHANGED <<clock, issued, tables, ready, ended>>

\* Everywhere: tokens signed before this second, and the ones listed here.
RevokePrincipal(c, caller) ==
    LET p == PrincipalOf[caller]
        stale == {s \in cache.sessions : PrincipalOf[s] = p}
    IN
    /\ writes[c] = NoWrite
    /\ Accepted(caller)
    /\ cache' = [sessions |-> cache.sessions \ stale,
                 revoked |-> cache.revoked \cup stale,
                 before |-> [cache.before EXCEPT ![p] = clock]]
    /\ writes' = [writes EXCEPT ![c] =
        [kind |-> "revoke_principal", sids |-> stale, principal |-> p, ts |-> clock,
         ending |-> {s \in Sids : PrincipalOf[s] = p /\ Accepted(s)}]]
    /\ UNCHANGED <<clock, issued, tables, ready, ended>>

\* A mutant: revoking a principal leaves its listed sessions out of the tables.
RowsByTimeOnly(w) ==
    [sessions |-> IF w.kind = "login" THEN tables.sessions \cup w.sids
                  ELSE tables.sessions \ w.sids,
     revoked |-> IF w.kind = "revoke_sid" THEN tables.revoked \cup w.sids ELSE tables.revoked,
     before |-> IF w.kind = "revoke_principal"
                THEN [tables.before EXCEPT ![w.principal] = w.ts] ELSE tables.before]

\* The transaction of _persist; upsert_revoked_principal keeps no maximum.
RowsAfter(w) ==
    [sessions |-> IF w.kind = "login" THEN tables.sessions \cup w.sids
                  ELSE tables.sessions \ w.sids,
     revoked |-> IF w.kind = "login" THEN tables.revoked ELSE tables.revoked \cup w.sids,
     before |-> IF w.kind = "revoke_principal"
                THEN [tables.before EXCEPT ![w.principal] = w.ts] ELSE tables.before]

\* The write commits and the caller is answered.
Commit(c) ==
    /\ writes[c] # NoWrite
    /\ tables' = RowsAfter(writes[c])
    /\ ended' = ended \cup writes[c].ending
    /\ writes' = [writes EXCEPT ![c] = NoWrite]
    /\ UNCHANGED <<clock, issued, cache, ready>>

\* SessionRegistryUnavailable: 503, and the memory stays as it was changed.
Fail(c) ==
    /\ writes[c] # NoWrite
    /\ writes' = [writes EXCEPT ![c] = NoWrite]
    /\ UNCHANGED <<clock, issued, cache, tables, ready, ended>>

Crash ==
    /\ ready
    /\ ready' = FALSE
    /\ cache' = EmptyRegistry
    /\ writes' = [c \in Calls |-> NoWrite]
    /\ UNCHANGED <<clock, issued, tables, ended>>

\* open_session_store; the start of a process takes longer than a second.
Open ==
    /\ ~ready
    /\ clock < MaxClock
    /\ clock' = clock + 1
    /\ ready' = TRUE
    /\ cache' = tables
    /\ UNCHANGED <<issued, tables, writes, ended>>

SessionNext ==
    \/ Tick
    \/ \E s \in Sids : LoginWallet(s)
    \/ \E c \in Calls, s \in Sids : Login(c, s)
    \/ \E c \in Calls, caller, s \in Sids : RevokeSid(c, caller, s)
    \/ \E c \in Calls, caller \in Sids : RevokePrincipal(c, caller)
    \/ \E c \in Calls : Commit(c) \/ Fail(c)
    \/ Crash
    \/ Open

SessionSpec == SessionInit /\ [][SessionNext]_sessionVars

-----------------------------------------------------------------------------

\* A session that was live when a revocation asked to end it is refused from
\* the moment the caller is told so, whatever sessions, failed and overtaking
\* revocations, crashes and restarts follow (session_registry).
RevocationHolds == \A s \in ended : Revoked(s)
=============================================================================
