------------------------------- MODULE Startup -------------------------------
(***************************************************************************)
(* The life of the server process (cmd/server/main.go): it reads its        *)
(* configuration, opens the database, applies the migrations                *)
(* (store/store.go), fills the whitelist, serves, and drains its requests   *)
(* when it is told to stop. A process may die at any point, several may     *)
(* start at once on one database, and Docker starts again a process that     *)
(* failed (docker-compose.yml, restart: unless-stopped).                     *)
(***************************************************************************)
EXTENDS Config, FiniteSets

CONSTANTS
  Processes,     \* the server processes that may run
  Files,         \* the migration files, as the order of their names
  Environments,  \* the environments an operator may have written
  MaxIncidents   \* bound: how often a process is told to stop or dies, or the
                 \* database or the network fails

ASSUME FilesAssumption == Files \subseteq Nat
ASSUME EnvironmentsAssumption == Environments \subseteq Environment
ASSUME StartBounds == MaxIncidents \in Nat

VARIABLES
  env,        \* the environment of the processes
  process,    \* where each process is in main.run, and the files it has to apply
  tracked,    \* the table schema_migrations exists
  recorded,   \* its rows
  applied,    \* how often the body of each file has taken effect
  incidents

startVars == <<env, process, tracked, recorded, applied, incidents>>

Starting == {"opening", "table", "reading", "migrating"}
Running == Starting \cup {"serving", "draining"}

Incident == incidents < MaxIncidents /\ incidents' = incidents + 1

At(pc) == [pc |-> pc, left |-> {}]

\* The names not yet applied when the process looked come in their order.
IsNext(p, f) == f \in process[p].left /\ \A g \in process[p].left : f <= g

Go(p, pc) == process' = [process EXCEPT ![p] = At(pc)]

\* Docker starts a container that failed; an accepted configuration and a
\* directory for the images (main.go:44-57) bring it to the database.
Start(p) ==
  /\ process[p].pc = "down"
  /\ Accepted(env)
  /\ Go(p, "opening")
  /\ UNCHANGED <<env, tracked, recorded, applied, incidents>>

\* store.go:37-60. The pool answers a ping.
Open(p) ==
  /\ process[p].pc = "opening"
  /\ Go(p, "table")
  /\ UNCHANGED <<env, tracked, recorded, applied, incidents>>

\* store.go:86-92. CREATE TABLE IF NOT EXISTS schema_migrations.
CreateTable(p) ==
  /\ process[p].pc = "table"
  /\ tracked' = TRUE
  /\ Go(p, "reading")
  /\ UNCHANGED <<env, recorded, applied, incidents>>

\* Two processes create it together: PostgreSQL refuses the second one, whose
\* test for existence came too early.
CreateTableTwice(p) ==
  /\ process[p].pc = "table"
  /\ \E q \in Processes : process[q].pc = "reading"
  /\ Go(p, "down")
  /\ UNCHANGED <<env, tracked, recorded, applied, incidents>>

\* store.go:94-126. The versions of this moment decide what is applied.
ReadVersions(p) ==
  /\ process[p].pc = "reading"
  /\ tracked
  /\ process' = [process EXCEPT ![p] = [pc |-> "migrating", left |-> Files \ recorded]]
  /\ UNCHANGED <<env, tracked, recorded, applied, incidents>>

\* store.go:128-143. The body and its version row are one implicit
\* transaction. Another process may have applied the file since the reading:
\* its objects exist and its version is taken, the transaction is undone and
\* the process ends.
Conflicts(f) == applied[f] > 0 \/ f \in recorded

Without(p, f) == [pc |-> "migrating", left |-> process[p].left \ {f}]

ApplyForgettingVersion(p) ==
  /\ process[p].pc = "migrating"
  /\ \E f \in Files :
       /\ IsNext(p, f)
       /\ IF Conflicts(f)
            THEN Go(p, "down") /\ UNCHANGED <<recorded, applied>>
            ELSE /\ applied' = [applied EXCEPT ![f] = @ + 1]
                 /\ recorded' \in {recorded, recorded \cup {f}}
                 /\ process' = [process EXCEPT ![p] = Without(p, f)]
  /\ UNCHANGED <<env, tracked, incidents>>

ApplyRetrying(p) ==
  /\ process[p].pc = "migrating"
  /\ \E f \in Files :
       /\ IsNext(p, f) /\ ~Conflicts(f)
       /\ applied' = [applied EXCEPT ![f] = @ + 1]
       /\ recorded' = recorded \cup {f}
       /\ process' = [process EXCEPT ![p] = Without(p, f)]
  /\ UNCHANGED <<env, tracked, incidents>>

Apply(p) ==
  /\ process[p].pc = "migrating"
  /\ \E f \in Files :
       /\ IsNext(p, f)
       /\ IF Conflicts(f)
            THEN Go(p, "down") /\ UNCHANGED <<recorded, applied>>
            ELSE /\ applied' = [applied EXCEPT ![f] = @ + 1]
                 /\ recorded' = recorded \cup {f}
                 /\ process' = [process EXCEPT ![p] = Without(p, f)]
  /\ UNCHANGED <<env, tracked, incidents>>

\* store.go:149-168 and main.go:68-101. Every file is applied, the whitelist is
\* filled (AccessControl has it) and the server listens.
Serve(p) ==
  /\ process[p].pc = "migrating"
  /\ process[p].left = {}
  /\ Go(p, "serving")
  /\ UNCHANGED <<env, tracked, recorded, applied, incidents>>

\* SIGTERM. main.go:103-108 leaves the wait when the server is running; the
\* cancelled context makes the statement of a process that starts fail.
Stop(p) ==
  /\ process[p].pc \in Starting \cup {"serving"}
  /\ Incident
  /\ Go(p, IF process[p].pc = "serving" THEN "draining" ELSE "stopped")
  /\ UNCHANGED <<env, tracked, recorded, applied>>

\* main.go:110-118. Shutdown returns when no request is left, or after 20
\* seconds: the process ends either way.
Exit(p) ==
  /\ process[p].pc = "draining"
  /\ Go(p, "stopped")
  /\ UNCHANGED <<env, tracked, recorded, applied, incidents>>

\* The operator starts what he stopped.
StartAgain(p) ==
  /\ process[p].pc = "stopped"
  /\ Go(p, "down")
  /\ UNCHANGED <<env, tracked, recorded, applied, incidents>>

\* The process dies, a statement of its start fails, or the port is taken
\* (main.go:104): what a committed statement did stays.
Die(p) ==
  /\ process[p].pc \in Running
  /\ Incident
  /\ Go(p, "down")
  /\ UNCHANGED <<env, tracked, recorded, applied>>

\* An empty database; the operator starts some of the processes.
StartInit ==
  /\ env \in Environments
  /\ process \in [Processes -> {At("down"), At("stopped")}]
  /\ tracked = FALSE
  /\ recorded = {}
  /\ applied = [f \in Files |-> 0]
  /\ incidents = 0

Boot(p) ==
  \/ Start(p) \/ Open(p) \/ CreateTable(p) \/ CreateTableTwice(p) \/ ReadVersions(p)
  \/ Apply(p) \/ Serve(p)

StartNext == \E p \in Processes : Boot(p) \/ Stop(p) \/ Exit(p) \/ StartAgain(p) \/ Die(p)

StartSpec == StartInit /\ [][StartNext]_startVars

StartTypeOK ==
  /\ env \in Environments
  /\ process \in [Processes -> [pc : Running \cup {"down", "stopped"}, left : SUBSET Files]]
  /\ tracked \in BOOLEAN
  /\ recorded \in SUBSET Files
  /\ applied \in [Files -> Nat]
  /\ incidents \in 0..MaxIncidents

-----------------------------------------------------------------------------
\* However many processes start at once and wherever they die, a file takes
\* effect once, its row says so, and no file goes before an earlier one
\* (store.go:70-76: applied in order, entirely or not at all).
MigratedOnce ==
  /\ \A f \in Files : applied[f] = IF f \in recorded THEN 1 ELSE 0
  /\ \A f, g \in Files : g \in recorded /\ f < g => f \in recorded

\* A process that answers requests has every table, and a configuration whose
\* cookies the browser keeps and which is safe in production.
ReadyToServe ==
  \A p \in Processes : process[p].pc \in {"serving", "draining"} =>
    recorded = Files /\ CookieKept(env) /\ ProductionSafe(env)

\* A process that is not told to stop ends up serving: losing the race for a
\* migration costs it one more start.
EventuallyServes ==
  \A p \in Processes :
    (process[p].pc = "down" /\ Accepted(env)) ~> (process[p].pc \in {"serving", "stopped", "draining"})
=============================================================================
