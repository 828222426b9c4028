----------------------------- MODULE LastAdmin -----------------------------
(***************************************************************************)
(* Administration of user accounts: updating role and active flag, and     *)
(* deleting, with the check that keeps one active administrator            *)
(* (internal/http/users.go over internal/store/user_store.go).  The load,  *)
(* the count and the write are separate database calls of one handler.     *)
(***************************************************************************)
EXTENDS FiniteSets, Naturals

CONSTANTS Users, Requests, None

VARIABLES
    users,  \* users table: role and active flag, or "deleted"
    req     \* program counter and local variables of each handler

vars == <<users, req>>

Roles == {"admin", "viewer"}
Account == [role: Roles, active: BOOLEAN]
Deleted == [role |-> "deleted", active |-> FALSE]
Columns == {"role", "active"}
Idle == [pc |-> "idle", id |-> None, from |-> Deleted, to |-> Deleted, fields |-> {}]

\* Bootstrap seeds one administrator; the others start as viewers.
Init ==
    /\ \E u \in Users : users = [v \in Users |->
         [role |-> IF v = u THEN "admin" ELSE "viewer", active |-> TRUE]]
    /\ req = [r \in Requests |-> Idle]

IsActiveAdmin(a) == a.role = "admin" /\ a.active

\* CountActiveAdmins, excluding one user.
CountActiveAdmins(u) == Cardinality({v \in Users \ {u} : IsActiveAdmin(users[v])})

Begin(r, u, to, fields) ==
    /\ req[r].pc = "idle"
    /\ users[u] # Deleted
    /\ req' = [req EXCEPT ![r] = [pc |-> "check", id |-> u, from |-> users[u],
                                 to |-> to, fields |-> fields]]
    /\ UNCHANGED users

\* Columns of a that the request names, the rest of b.
Merge(a, b, fields) ==
    [role   |-> IF "role" \in fields THEN a.role ELSE b.role,
     active |-> IF "active" \in fields THEN a.active ELSE b.active]

\* handleUpdateUser loads the row and applies the columns the request names.
UpdateUser(r, u, a, fields) ==
    /\ users[u] # Deleted
    /\ Begin(r, u, Merge(a, users[u], fields), fields)

\* handleDeleteUser loads the row.
DeleteUser(r, u) == Begin(r, u, Deleted, {})

\* preventRemovingLastActiveAdmin lets the change through.
ChangeAllowed(r) ==
    \/ ~IsActiveAdmin(req[r].from)
    \/ IsActiveAdmin(req[r].to)
    \/ CountActiveAdmins(req[r].id) > 0

CheckAdmins(r) ==
    /\ req[r].pc = "check"
    /\ req' = [req EXCEPT ![r] = IF ChangeAllowed(r) THEN [@ EXCEPT !.pc = "write"] ELSE Idle]
    /\ UNCHANGED users

\* UpdateFields writes the named columns only; Delete removes the row; a row
\* deleted in between stays deleted and is reported as not found.
WriteUser(r) ==
    /\ req[r].pc = "write"
    /\ users' = [users EXCEPT ![req[r].id] =
         IF @ = Deleted \/ req[r].to = Deleted THEN Deleted
         ELSE Merge(req[r].to, @, req[r].fields)]
    /\ req' = [req EXCEPT ![r] = Idle]

Next == \E r \in Requests :
    \/ CheckAdmins(r)
    \/ WriteUser(r)
    \/ \E u \in Users :
         \/ DeleteUser(r, u)
         \/ \E a \in Account, fields \in SUBSET Columns : UpdateUser(r, u, a, fields)

Spec == Init /\ [][Next]_vars

-----------------------------------------------------------------------------
\* Some active administrator is left, as the check's own message says: the
\* last active admin cannot be removed, deactivated, or demoted (users.go).
AdminRemains == \E u \in Users : IsActiveAdmin(users[u])
=============================================================================
