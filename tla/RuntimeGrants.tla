--------------------------- MODULE RuntimeGrants ---------------------------
(***************************************************************************)
(* The two scripts that give an App's service principal what it needs at   *)
(* run time: src/operations/grant_app_runtime_permissions.py (permissions, *)
(* SQL grants and Lakebase roles) and grant_lakebase_memory_permissions.py *)
(* (schemas, tables and sequences of the memory).  Service principals are  *)
(* numbers; an App that is deleted and deployed again has the next one.    *)
(*                                                                         *)
(* A script is the set of the items it has yet to handle, taken in the     *)
(* order of its stages.  Every item is one step, in which the platform may *)
(* lack the object, refuse the call or accept it; a SQL statement may also *)
(* still be running when the call returns, and end later either way.       *)
(***************************************************************************)
EXTENDS Scripts, FiniteSets

CONSTANTS Spaces, Sources, Endpoints, Searches, Indexes, Branches, Privileges,
          Hinted,        \* what only the subagent file names
          MemoryBranch,  \* the branch the memory is on
          SharedSchemas, TypeSchemas, \* memory schemas
          Superuser,     \* the membership DATABRICKS_SUPERUSER
          Memberships,   \* those a Postgres role may have
          Options,       \* the flags and targets the first script is run with
          MaxPrincipals, MaxMissing
            \* bounds: principals of the App, objects missing at first

ASSUME GrantsAssumption ==
  /\ Hinted \subseteq Spaces \cup Endpoints \cup Indexes \cup Branches
  /\ MemoryBranch \in Branches
  /\ Superuser \in Memberships
  /\ MaxPrincipals \in Nat \ {0}
  /\ MaxMissing \in Nat
  /\ Options \subseteq [open : BOOLEAN, live : BOOLEAN, audit : BOOLEAN]

VARIABLES sp,         \* the App's principal
          hints,      \* the subagent file is where the script looks for it
          present,    \* the objects that exist
          held,       \* pairs: a principal has a grant
          submitted,  \* pairs: its statement had not ended when it was counted
          roles,      \* the Postgres roles of each branch; 0 is an App's earlier principal
          grants,     \* the last run of the first script
          tables,     \* who created the tables of a memory schema, 0 for none
          settled,    \* the principals that a run has ended for with no failure
          readable,   \* pairs: a principal was granted a memory schema's item
          memory      \* the last run of the second script

controlVars == <<sp, script, scripts>>
platformVars == <<hints, present, held, submitted>>
memoryVars == <<tables, readable, memory>>
runVars == <<grants, settled>>
grantsVars == <<controlVars, platformVars, roles, runVars, memoryVars>>

Warehouse == "warehouse"
Schema == "schema"
Objects == Spaces \cup Endpoints \cup Searches \cup Indexes \cup {Warehouse, Schema}

Item(kind, of) == [kind |-> kind, of |-> of]
Of(kind, S) == {Item(kind, x) : x \in S}

\* The order of PermissionManager.run.
Stage == [check |-> 1, space |-> 2, source |-> 3, endpoint |-> 4, search |-> 5,
          index |-> 6, role |-> 7, warehouse |-> 8, schema |-> 9, uc |-> 10]

Sql == {"source", "uc"}
Tests == {"check", "schema"}   \* items that grant nothing themselves

Idle == [sp |-> 0, todo |-> {}, failed |-> FALSE, open |-> FALSE, live |-> TRUE,
         audit |-> FALSE, listed |-> <<>>, code |-> 1]
MemoryIdle == [sp |-> 0, todo |-> {}, refused |-> FALSE, ended |-> FALSE]

Role(id, principal, member) == [id |-> id, sp |-> principal, member |-> member]
IsSuper(r) == Superuser \in r.member

GrantsInit ==
  /\ sp = 1
  /\ script = "none"
  /\ scripts = 0
  /\ hints \in BOOLEAN
  /\ present \in {P \in SUBSET Objects : Cardinality(Objects \ P) <= MaxMissing}
  /\ held = {}
  /\ submitted = {}
  /\ roles \in {[b \in Branches |-> R] : R \in {{}, {Role("app", 0, {Superuser})}}}
  /\ grants = Idle
  /\ settled = {}
  /\ tables = [s \in SharedSchemas \cup TypeSchemas |-> 0]
  /\ readable = {}
  /\ memory = MemoryIdle

-----------------------------------------------------------------------------
(* A script resolves the App's principal once, when it starts.             *)

Resolves(name) == Starts(name) /\ UNCHANGED sp
Within(name) == script = name /\ UNCHANGED controlVars
Leaves(name) == script = name /\ script' = "none" /\ UNCHANGED <<sp, scripts>>

-----------------------------------------------------------------------------
(* The first script.                                                       *)

\* What the target's variables and the subagent file name together.  The audit
\* grants are for a target whose message bus is the audit table and whose
\* catalog and schema are given.
Named(S) == IF hints THEN S ELSE S \ Hinted
Audit == {Item("warehouse", Warehouse)} \cup Of("uc", Privileges)
Planned(audit) == Of("space", Named(Spaces)) \cup Of("source", Sources)
                    \cup Of("endpoint", Named(Endpoints)) \cup Of("search", Searches)
                    \cup Of("index", Named(Indexes)) \cup Of("role", Named(Branches))
                    \cup (IF audit THEN Audit ELSE {})

StartGrants ==
  /\ Resolves("grants")
  /\ \E o \in Options :
       grants' = [Idle EXCEPT
         !.sp = sp, !.open = o.open, !.live = o.live, !.audit = o.audit,
         !.todo = {i \in Planned(o.audit) : i.kind # "index"}
                    \cup Of("check", Named(Indexes))
                    \cup (IF o.audit THEN {Item("schema", Schema)} ELSE {})]
  /\ UNCHANGED <<platformVars, roles, settled, memoryVars>>

Ready(i) == /\ i \in grants.todo
            /\ \A j \in grants.todo : Stage[i.kind] <= Stage[j.kind]

Done(S) == [grants EXCEPT !.todo = @ \ S]
Failed(S) == [grants EXCEPT !.todo = @ \ S, !.failed = TRUE]

OfKinds(kinds) == {i \in grants.todo : i.kind \in kinds}

\* What one missing object makes the script leave out: a source stage needs the
\* warehouse, the audit grants need the warehouse and then the schema.
LeftOut(i) == CASE i.kind = "source" -> OfKinds({"source"})
                [] i.kind = "warehouse" -> OfKinds({"warehouse", "schema", "uc"})
                [] i.kind = "schema" -> OfKinds({"schema", "uc"})
                [] OTHER -> {i}
Needs(i) == CASE i.kind = "source" -> Warehouse
              [] i.kind = "uc" -> Schema
              [] OTHER -> i.of

MissingIgnored(i) ==
  /\ i.kind \notin {"role", "index", "uc"}
  /\ Needs(i) \notin present
  /\ grants' = Done(LeftOut(i))
  /\ UNCHANGED <<held, submitted, roles>>
Missing(i) ==
  /\ i.kind \notin {"role", "index", "uc"}
  /\ Needs(i) \notin present
  /\ grants' = Failed(LeftOut(i))
  /\ UNCHANGED <<held, submitted, roles>>
Tested(i) ==
  /\ i.kind \in Tests
  /\ i.of \in present
  /\ grants' = [grants EXCEPT !.todo = (@ \ {i}) \cup
                  (IF i.kind = "check" THEN {Item("index", i.of)} ELSE {})]
  /\ UNCHANGED <<held, submitted, roles>>

\* The object is there (an index or a schema was tested before), the call goes
\* out, unless the run is a dry one.
GoesOut(i) ==
  /\ i.kind \notin Tests \cup {"role"}
  /\ i.kind \in {"index", "uc"} \/ Needs(i) \in present

Accepted(i) ==
  /\ GoesOut(i)
  /\ grants' = Done({i})
  /\ held' = IF grants.live THEN held \cup {<<grants.sp, i>>} ELSE held
  /\ UNCHANGED <<submitted, roles>>

StillRunning(i) ==
  /\ GoesOut(i)
  /\ i.kind \in Sql /\ grants.live
  /\ grants' = Done({i})
  /\ submitted' = submitted \cup {<<grants.sp, i>>}
  /\ UNCHANGED <<held, roles>>

Refused(i) ==
  /\ GoesOut(i) /\ grants.live
  /\ grants' = Failed({i})
  /\ UNCHANGED <<held, submitted, roles>>

-----------------------------------------------------------------------------
(* Lakebase roles.                                                         *)

\* The script names the role it creates after the App, so the identifier is
\* taken by the role of an earlier principal of the App.
RolesOf(listed, p) == {r \in listed : r.sp = p}
MayCreate(b, p) == \A r \in roles[b] : r.id # "app" /\ r.sp # p

\* A mutant of Enough: the membership of a role is not looked at.
NeverEnough(r) == FALSE
Enough(r) == IsSuper(r)

\* The roles of the branch are listed; a list that fails reads as an empty one.
ListRoles(i) ==
  /\ i.kind = "role"
  /\ grants.listed = <<>>
  /\ \E listed \in {roles[i.of], {}} :
       LET mine == RolesOf(listed, grants.sp) IN
         grants' = IF ~grants.live \/ \E r \in mine : Enough(r) THEN Done({i})
                   ELSE [grants EXCEPT !.listed = <<[of |-> i, mine |-> mine]>>]
  /\ UNCHANGED <<held, submitted, roles>>

\* update-role writes the whole list of memberships, whatever the role has by
\* then; create-role is for a principal that was not listed.
Replaced(b, r) == {q \in roles[b] : q.id # r.id \/ q.sp # r.sp}
                       \cup {[r EXCEPT !.member = {Superuser}]}

GrantRole(i) ==
  /\ grants.listed # <<>>
  /\ grants.listed[1].of = i
  /\ LET mine == grants.listed[1].mine IN
       \/ /\ \E r \in mine : roles' = [roles EXCEPT ![i.of] = Replaced(i.of, r)]
          /\ grants' = [Done({i}) EXCEPT !.listed = <<>>]
       \/ /\ mine = {} /\ MayCreate(i.of, grants.sp)
          /\ roles' = [roles EXCEPT ![i.of] = @ \cup {Role("app", grants.sp, {Superuser})}]
          /\ grants' = [Done({i}) EXCEPT !.listed = <<>>]
       \/ /\ grants' = [Failed({i}) EXCEPT !.listed = <<>>]
          /\ UNCHANGED roles
  /\ UNCHANGED <<held, submitted>>

EndGrants ==
  /\ Leaves("grants")
  /\ grants.todo = {}
  /\ grants' = [grants EXCEPT !.code = IF ~grants.failed \/ grants.open THEN 0 ELSE 1]
  /\ settled' = IF ~grants.failed /\ grants.live THEN settled \cup {grants.sp} ELSE settled
  /\ UNCHANGED <<platformVars, roles, memoryVars>>

GrantsRaise ==
  /\ Leaves("grants")
  /\ grants' = [grants EXCEPT !.todo = {}, !.listed = <<>>, !.code = 1]
  /\ UNCHANGED <<platformVars, roles, settled, memoryVars>>

GrantsStep ==
  /\ Within("grants")
  /\ \E i \in grants.todo :
       /\ Ready(i)
       /\ \/ Missing(i) \/ Tested(i) \/ Accepted(i) \/ StillRunning(i)
          \/ Refused(i) \/ ListRoles(i) \/ GrantRole(i)
  /\ UNCHANGED <<hints, present, settled, memoryVars>>

-----------------------------------------------------------------------------
(* The second script.  It says that it is complete whatever was refused.   *)

MemorySchemasOfType == TypeSchemas
MemorySchemas == SharedSchemas \cup TypeSchemas

StartMemory ==
  /\ Resolves("memory")
  /\ memory' = [MemoryIdle EXCEPT !.sp = sp,
                  !.todo = Of("role", {MemoryBranch}) \cup Of("tables", MemorySchemas)]
  /\ UNCHANGED <<platformVars, roles, runVars, tables, readable>>

CreateRole ==
  /\ memory.todo \cap Of("role", Branches) # {}
  /\ memory' = [memory EXCEPT !.todo = @ \ Of("role", Branches)]
  /\ roles' = IF RolesOf(roles[MemoryBranch], memory.sp) # {} THEN roles
              ELSE [roles EXCEPT ![MemoryBranch] = @ \cup {Role("own", memory.sp, {})}]
  /\ UNCHANGED readable

\* The grants on one schema, its tables and its sequences: none is attempted
\* less because another was refused, and what is refused is only printed.
GrantSchema(s) ==
  /\ memory.todo \cap Of("role", Branches) = {}
  /\ Item("tables", s) \in memory.todo
  /\ LET rest == memory.todo \ {Item("tables", s)} IN
       \/ /\ tables[s] # 0
          /\ readable' = readable \cup {<<memory.sp, s>>}
          /\ memory' = [memory EXCEPT !.todo = rest]
       \/ /\ memory' = [memory EXCEPT !.todo = rest, !.refused = TRUE]
          /\ UNCHANGED readable
  /\ UNCHANGED roles

MemoryStep ==
  /\ Within("memory")
  /\ CreateRole \/ \E s \in MemorySchemas : GrantSchema(s)
  /\ UNCHANGED <<platformVars, runVars, tables>>

MemoryRaises ==
  /\ Leaves("memory")
  /\ memory' = MemoryIdle
  /\ UNCHANGED <<platformVars, roles, runVars, tables, readable>>

EndMemory ==
  /\ Leaves("memory")
  /\ memory.todo = {}
  /\ memory' = [memory EXCEPT !.ended = TRUE]
  /\ UNCHANGED <<platformVars, roles, runVars, tables, readable>>

-----------------------------------------------------------------------------
(* The platform.                                                           *)

Recreated ==
  /\ sp < MaxPrincipals
  /\ sp' = sp + 1
  /\ UNCHANGED <<script, scripts, platformVars, roles, runVars, memoryVars>>

Provision ==
  /\ script = "none"
  /\ \E o \in Objects \ present : present' = present \cup {o}
  /\ UNCHANGED <<controlVars, hints, held, submitted, roles, runVars, memoryVars>>

\* A role without membership appears for an App's new principal.
RoleAppears ==
  /\ \E b \in Branches :
       /\ RolesOf(roles[b], sp) = {}
       /\ roles' = [roles EXCEPT ![b] = @ \cup {Role("own", sp, {})}]
  /\ UNCHANGED <<controlVars, platformVars, runVars, memoryVars>>

\* An administrator adds a membership to the role of the App's principal.
MembershipGiven ==
  /\ \E b \in Branches, m \in Memberships \ {Superuser} : \E r \in RolesOf(roles[b], sp) :
       /\ m \notin r.member
       /\ roles' = [roles EXCEPT ![b] = (@ \ {r}) \cup {[r EXCEPT !.member = @ \cup {m}]}]
  /\ UNCHANGED <<controlVars, platformVars, runVars, memoryVars>>

\* The App's first use of the memory creates the tables of a schema.
FirstUse ==
  /\ \E s \in DOMAIN tables :
       /\ tables[s] = 0
       /\ RolesOf(roles[MemoryBranch], sp) # {}
       /\ tables' = [tables EXCEPT ![s] = sp]
  /\ UNCHANGED <<controlVars, platformVars, roles, runVars, readable, memory>>

GrantsNext ==
  \/ StartGrants \/ GrantsStep \/ EndGrants \/ GrantsRaise
  \/ StartMemory \/ MemoryStep \/ EndMemory \/ MemoryRaises
  \/ Recreated \/ Provision \/ RoleAppears \/ MembershipGiven \/ FirstUse

GrantsSpec == GrantsInit /\ [][GrantsNext]_grantsVars

-----------------------------------------------------------------------------
GrantsTypeOK ==
  /\ sp \in 1 .. MaxPrincipals
  /\ scripts \in 0 .. MaxScripts
  /\ present \subseteq Objects
  /\ \A pair \in held \cup submitted : pair[2] \in Planned(TRUE)
  /\ \A b \in Branches : \A r \in roles[b] : r.id \in {"app", "own"} /\ r.member \subseteq Memberships
  /\ settled \subseteq 1 .. MaxPrincipals
  /\ grants.code \in {0, 1}
  /\ memory.todo \subseteq Of("role", Branches) \cup Of("tables", MemorySchemas)

Has(p, i) == IF i.kind = "role" THEN \E r \in roles[i.of] : r.sp = p /\ IsSuper(r)
             ELSE <<p, i>> \in held \cup submitted

\* A run that exits 0, was not told to tolerate failures and was not a dry one
\* leaves the principal it resolved with every grant it discovered, but for
\* statements that had not ended when they were counted as granted: across
\* missing objects, stages left out, roles of earlier principals whose
\* identifier is taken, and reruns (grant_app_runtime_permissions.py: run).
CleanExitHolds ==
  (grants.code = 0 /\ ~grants.open /\ grants.live) =>
    \A i \in Planned(grants.audit) : Has(grants.sp, i)

\* The scripts may be run again ("idempotent when rerun against the same target
\* configuration", grant_app_runtime_permissions.py:766): once a run has ended
\* for a principal with no failure, no later one takes a membership from its
\* roles, whoever gave it and whenever, though update-role overwrites them all
\* and the roles were listed in an earlier call.  A first run may well.
RerunTakesNothing ==
  [][\A b \in Branches : \A r \in roles[b] :
       r.sp \in settled /\ Item("role", b) \in Planned(FALSE) =>
         \E q \in roles'[b] : q.sp = r.sp /\ r.member \subseteq q.member]_<<roles, settled>>

\* Once the memory script has ended for a principal with nothing refused, that
\* principal can use the tables of every memory schema that exist, whether an
\* earlier principal of the App created them or it did so itself afterwards
\* (grant_lakebase_memory_permissions.py: "Re-run this script after the first
\* run to grant remaining permissions").
MemoryIsReadable ==
  (memory.ended /\ ~memory.refused) =>
    \A s \in DOMAIN tables :
      tables[s] \in {0, memory.sp} \/ <<memory.sp, s>> \in readable

\* What the scripts report as done is done, now and after later runs.
ReportedIsGranted == CleanExitHolds /\ MemoryIsReadable
=============================================================================
