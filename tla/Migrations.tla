----------------------------- MODULE Migrations -----------------------------
(***************************************************************************)
(* What a server does to the database before it serves: it applies the     *)
(* migrations its binary embeds, one transaction each, and records them in *)
(* schema_migrations.  Nothing keeps two servers from doing so at the same *)
(* time, or a new release from meeting a database an older one has set up. *)
(***************************************************************************)
EXTENDS Integers, FiniteSets, Sequences

CONSTANTS
    Servers,     \* instances of the program that are started
    Directory,   \* versions of the files each embeds, in the order of their names
    Needs,       \* for each version, the migrations whose tables it alters
    Repeatable,  \* versions whose statements succeed where they were executed before
    MaxCrashes   \* bound on the crashes

Versions(s) == {Directory[s][i] : i \in DOMAIN Directory[s]}

(* The number in front of the name of a file is its version.               *)
ASSUME VersionsAreNumbers == \A s \in Servers : Versions(s) \subseteq Nat

VARIABLES
    schema,   \* versions whose statements were committed, in that order
    applied,  \* schema_migrations
    server,   \* where each instance is, and the migrations it has yet to look at
    crashes   \* crashes so far

startupVars == <<schema, applied, server, crashes>>

-----------------------------------------------------------------------------
Down == [pc |-> "down", todo |-> {}]

StandsAt(s, pc) == server[s].pc = pc

Applied(v) == \E i \in DOMAIN schema : schema[i] = v

StartupInit ==
    /\ schema = <<>>
    /\ applied = {}
    /\ server = [s \in Servers |-> Down]
    /\ crashes = 0

(* log.Fatalf: the process ends and its container is started again.        *)
Fatal(s) == server' = [server EXCEPT ![s] = Down]

(* The migration whose turn it is: the files are sorted by their numbers,  *)
(* by which the names of more than four digits are not listed.             *)
NextListed(s) ==
    LET first == CHOOSE i \in DOMAIN Directory[s] :
                     /\ Directory[s][i] \in server[s].todo
                     /\ \A j \in DOMAIN Directory[s] :
                           Directory[s][j] \in server[s].todo => i <= j
    IN  Directory[s][first]
NextVersion(s) == CHOOSE v \in server[s].todo : \A w \in server[s].todo : v <= w

LoadMigrations(s) ==
    /\ StandsAt(s, "down")
    /\ server' = [server EXCEPT ![s] = [pc |-> "migrating", todo |-> Versions(s)]]
    /\ UNCHANGED <<schema, applied, crashes>>

(* Each version is looked up by itself; and a schema that has one number.  *)
IsBehind(v) == \E w \in applied : v <= w
IsApplied(v) == v \in applied

CheckApplied(s) ==
    /\ StandsAt(s, "migrating")
    /\ server[s].todo # {}
    /\ server' = IF IsApplied(NextVersion(s))
                 THEN [server EXCEPT ![s].todo = @ \ {NextVersion(s)}]
                 ELSE [server EXCEPT ![s].pc = "applying"]
    /\ UNCHANGED <<schema, applied, crashes>>

(* A statement waits for the transaction that is creating the same thing,  *)
(* and fails if that is there or what it alters is not.                    *)
RunStatements(s) ==
    LET v == NextVersion(s) IN
    /\ StandsAt(s, "applying")
    /\ \/ v \in Repeatable
       \/ ~\E other \in Servers : StandsAt(other, "executed") /\ NextVersion(other) = v
    /\ IF (\A w \in Needs[v] : Applied(w)) /\ (v \in Repeatable \/ ~Applied(v))
       THEN server' = [server EXCEPT ![s] = [@ EXCEPT !.pc = "executed"]]
       ELSE Fatal(s)
    /\ UNCHANGED <<schema, applied, crashes>>

(* The version is inserted and everything committed; the primary key       *)
(* refuses a second row.                                                   *)
RecordVersion(s) ==
    LET v == NextVersion(s) IN
    IF v \in applied THEN Fatal(s) /\ UNCHANGED <<schema, applied>>
    ELSE /\ schema' = Append(schema, v)
         /\ applied' = applied \cup {v}
         /\ server' = [server EXCEPT ![s] = [pc |-> "migrating", todo |-> @.todo \ {v}]]

Commit(s) == StandsAt(s, "executed") /\ RecordVersion(s) /\ UNCHANGED crashes

Serve(s) ==
    /\ StandsAt(s, "migrating")
    /\ server[s].todo = {}
    /\ server' = [server EXCEPT ![s] = [@ EXCEPT !.pc = "serving"]]
    /\ UNCHANGED <<schema, applied, crashes>>

(* The process or its connection is gone, and with it the transaction.     *)
Crash(s) ==
    /\ ~StandsAt(s, "down")
    /\ crashes < MaxCrashes
    /\ crashes' = crashes + 1
    /\ Fatal(s)
    /\ UNCHANGED <<schema, applied>>

StartUp(s) ==
    LoadMigrations(s) \/ CheckApplied(s) \/ RunStatements(s) \/ Commit(s) \/ Serve(s)

StartupNext == \E s \in Servers : StartUp(s) \/ Crash(s)

StartupSpec ==
    StartupInit /\ [][StartupNext]_startupVars /\ \A s \in Servers : WF_startupVars(StartUp(s))

-----------------------------------------------------------------------------
(* A migration and its record are one transaction: none is applied twice,  *)
(* whoever applies it at the same time or crashes in between.              *)
AppliedOnce ==
    /\ \A i, j \in DOMAIN schema : schema[i] = schema[j] => i = j
    /\ applied = {schema[i] : i \in DOMAIN schema}

(* A server that serves finds all its migrations applied, also one whose   *)
(* release adds a migration with a lower number than the database has.     *)
ServedSchemaIsComplete ==
    \A s \in Servers : StandsAt(s, "serving") =>
        \A i \in DOMAIN Directory[s] : Applied(Directory[s][i])

(* Whichever servers race and wherever one of them crashes, the database   *)
(* they serve is whole (RunMigrations).                                    *)
SchemaIsWhole == AppliedOnce /\ ServedSchemaIsComplete

(* Of servers that start at once, the one that loses a race gives up, and  *)
(* one may crash; it is started again, and every server that was started   *)
(* serves in the end.                                                      *)
ServersComeUp == \A s \in Servers : ~StandsAt(s, "down") ~> StandsAt(s, "serving")
=============================================================================
