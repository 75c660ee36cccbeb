----------------------------- MODULE PgConnection -----------------------------
(***************************************************************************)
(* The Postgres connection the prediction service keeps in state["pg"]     *)
(* (pg_conn and pg_fetch in src/service/api.py), shared by the coroutines  *)
(* of one event loop: the scoring loop and the requests of the endpoints.  *)
(* A coroutine gives way to another one only where it awaits the network.  *)
(*                                                                         *)
(* The server is external: it goes down, breaking every connection, and    *)
(* comes up again.  A client learns of it when it next uses the connection. *)
(***************************************************************************)
EXTENDS Naturals

CONSTANTS
    None,           \* Python's None
    Coroutine,      \* the coroutines that read through pg_fetch
    MaxBreaks       \* bound: how often the server or the network breaks

ASSUME PgAssumption ==
    /\ None \notin Nat
    /\ MaxBreaks \in Nat

VARIABLES
    pg,         \* state["pg"]: a connection, numbered as opened, or None
    opened,     \* how many connections the process has opened
    broken,     \* the connections whose server side is gone
    closed,     \* the connections psycopg knows to be closed
    up,         \* the server accepts connections
    breaks,     \* how often the server or the network broke
    fetch       \* each coroutine's call of pg_fetch

pgVars == <<pg, opened, broken, closed, up, breaks, fetch>>

(* hurt is history: the server was down, or something broke, meanwhile.    *)
FetchType ==
    [at: {"none", "connecting", "querying", "failed"}, attempt: {0, 1},
     conn: Nat \union {None}, hurt: BOOLEAN]

PgTypeOK ==
    /\ opened \in Nat
    /\ pg \in (1..opened) \union {None}
    /\ broken \subseteq 1..opened
    /\ closed \subseteq broken
    /\ up \in BOOLEAN
    /\ breaks \in 0..MaxBreaks
    /\ fetch \in [Coroutine -> FetchType]

NoFetch == [at |-> "none", attempt |-> 0, conn |-> None, hurt |-> FALSE]

(* lifespan: a process of the service starts with a connection of its own. *)
PgInit ==
    /\ pg = 1
    /\ opened = 1
    /\ broken = {}
    /\ closed = {}
    /\ up = TRUE
    /\ breaks = 0
    /\ fetch = [c \in Coroutine |-> NoFetch]

ProcessStarted ==
    /\ up
    /\ pg' = 1
    /\ opened' = 1
    /\ broken' = {}
    /\ closed' = {}
    /\ fetch' = [c \in Coroutine |-> NoFetch]
    /\ UNCHANGED <<up, breaks>>

-----------------------------------------------------------------------------
(* pg_conn: state["pg"] is used unless it is None or known to be closed,   *)
(* and otherwise replaced by a new connection once that is open.  The      *)
(* variant returns the new connection and does not keep it.                *)
Usable == pg # None /\ pg \notin closed

ConnectedUnstored ==
    /\ up
    /\ UNCHANGED <<pg, opened, broken, closed, up, breaks>>

Connected ==
    /\ up
    /\ opened' = opened + 1
    /\ pg' = opened + 1
    /\ UNCHANGED <<broken, closed, up, breaks>>

(* An attempt of pg_fetch, from pg_conn on.                                *)
Attempt(number, hurt) ==
    [at |-> IF Usable THEN "querying" ELSE "connecting", attempt |-> number,
     conn |-> IF Usable THEN pg ELSE None, hurt |-> hurt]

BeginFetch(c) ==
    /\ fetch[c].at \notin {"connecting", "querying"}
    /\ fetch' = [fetch EXCEPT ![c] = Attempt(0, ~ up)]
    /\ UNCHANGED <<pg, opened, broken, closed, up, breaks>>

FetchConnected(c) ==
    /\ fetch[c].at = "connecting"
    /\ Connected
    /\ fetch' = [fetch EXCEPT ![c] = [at |-> "querying", attempt |-> @.attempt,
                                      conn |-> opened + 1, hurt |-> @.hurt]]

FetchAnswered(c) ==
    /\ fetch[c].at = "querying"
    /\ fetch[c].conn \notin broken
    /\ fetch' = [fetch EXCEPT ![c] = NoFetch]
    /\ UNCHANGED <<pg, opened, broken, closed, up, breaks>>

(* OperationalError, from connecting or from the query: state["pg"] is     *)
(* cleared, whichever connection it now holds, and the second attempt, if  *)
(* this was the first, connects anew.  One variant gives up at once, the   *)
(* other one closes the connection state["pg"] holds.                      *)
FetchError(c) ==
    \/ fetch[c].at = "connecting" /\ ~ up
    \/ fetch[c].at = "querying" /\ fetch[c].conn \in broken

FetchFailsAtOnce(c) ==
    /\ FetchError(c)
    /\ pg' = None
    /\ closed' = closed \union ({fetch[c].conn} \ {None})
    /\ fetch' = [fetch EXCEPT ![c].at = "failed", ![c].conn = None]
    /\ UNCHANGED <<opened, broken, up, breaks>>

FetchFailsClosing(c) ==
    /\ FetchError(c)
    /\ pg' = None
    /\ closed' = closed \union ({fetch[c].conn, pg} \ {None})
    /\ fetch' = [fetch EXCEPT ![c] = [at |-> IF @.attempt = 0 THEN "connecting" ELSE "failed",
                                      attempt |-> 1, conn |-> None, hurt |-> @.hurt]]
    /\ UNCHANGED <<opened, broken, up, breaks>>

FetchFails(c) ==
    /\ FetchError(c)
    /\ pg' = None
    /\ closed' = closed \union ({fetch[c].conn} \ {None})
    /\ fetch' = [fetch EXCEPT ![c] = [at |-> IF @.attempt = 0 THEN "connecting" ELSE "failed",
                                      attempt |-> 1, conn |-> None, hurt |-> @.hurt]]
    /\ UNCHANGED <<opened, broken, up, breaks>>

-----------------------------------------------------------------------------
(* The server (external).                                                  *)

(* Every call of pg_fetch on its way may be hurt by what breaks.           *)
HurtFetches ==
    [c \in Coroutine |-> IF fetch[c].at \in {"connecting", "querying"}
                         THEN [fetch[c] EXCEPT !.hurt = TRUE] ELSE fetch[c]]

ServerDown ==
    /\ up
    /\ breaks < MaxBreaks
    /\ breaks' = breaks + 1
    /\ up' = FALSE
    /\ broken' = 1..opened
    /\ fetch' = HurtFetches
    /\ UNCHANGED <<pg, opened, closed>>

ServerUp ==
    /\ ~ up
    /\ up' = TRUE
    /\ UNCHANGED <<pg, opened, broken, closed, breaks, fetch>>

(* A connection breaks under its user, who finds out.                      *)
Severed(conn) ==
    /\ breaks < MaxBreaks
    /\ breaks' = breaks + 1
    /\ broken' = broken \union {conn}
    /\ closed' = closed \union {conn}
    /\ fetch' = HurtFetches
    /\ UNCHANGED <<pg, opened, up>>

FetchNext(c) == FetchConnected(c) \/ FetchAnswered(c) \/ FetchFails(c)

-----------------------------------------------------------------------------
(* pg_fetch's docstring: "one reconnect+retry on a dropped connection so   *)
(* the first request after a DB bounce self-heals instead of 500-ing".  No *)
(* call fails unless something broke while it ran, whatever the other      *)
(* coroutines do with state["pg"] meanwhile.                               *)
FetchSelfHeals == \A c \in Coroutine : fetch[c].at = "failed" => fetch[c].hurt

(* pg_conn's docstring: "a single long-lived connection otherwise stays    *)
(* dead until the process restarts".  If the server comes back for good,   *)
(* state["pg"] holds a live connection again and again.                    *)
Healthy == pg # None /\ pg \notin broken

ConnectionHeals == <>[]up => []<>Healthy

=============================================================================
