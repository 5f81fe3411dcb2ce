------------------------------- MODULE Access -------------------------------
(***************************************************************************)
(* Who may do what: a role and its permissions, the user who is made with  *)
(* it, and the invitations of one address.  An update of a role reads it,  *)
(* deletes its permissions and writes the new ones without a transaction;  *)
(* a user is made after a check of the role, an invitation after a check   *)
(* of the address.  The flags of a permission are followed for USER_SETUP, *)
(* the one module that these calls decide by; of the other modules, only   *)
(* whether the role has a permission on them.                              *)
(***************************************************************************)
EXTENDS Naturals, FiniteSets

CONSTANTS
  Clerks,        \* calls in flight at a time
  OtherModules,  \* modules besides USER_SETUP
  Flags,         \* flags of a permission
  MaxRequests,   \* bound: calls
  MaxBreaks      \* bound: calls that break off

ASSUME AccessAssumption ==
  /\ IsFiniteSet(Clerks) /\ IsFiniteSet(OtherModules)
  /\ "USER_SETUP" \notin OtherModules
  /\ Flags \subseteq {"view", "create", "edit", "approve", "export", "configure", "admin"}
  /\ {MaxRequests, MaxBreaks} \subseteq Nat

VARIABLES
  role,      \* the Role row with its Permission rows
  names,     \* the names the role has had
  given,     \* the flags on USER_SETUP it was made with, and those updates named since;
             \* none for a role made without a permission on it
  holder,    \* a user of the address has been made with the role
  invited,   \* PENDING invitations of the address
  act,       \* act[c]: the call in flight for c
  asked,     \* calls so far
  breaks,    \* calls that broke off: the process stopped, or a statement failed
  wroteBare  \* an update was written that had found no permission on USER_SETUP

roleVars == <<role, names, given, wroteBare>>
accessVars == <<roleVars, holder, invited, act, asked, breaks>>

Modules == OtherModules \cup {"USER_SETUP"}
Admins == {"Admin", "admin"}
Names == Admins \cup {"Other"}
Managing == Flags \cap {"create", "edit", "configure", "admin"}

\* Permission rows: their modules, and the flags of the one on USER_SETUP.
Permissions ==
  {p \in [modules : SUBSET Modules, flags : SUBSET Flags] :
     "USER_SETUP" \notin p.modules => p.flags = {}}
Bare == [modules |-> {}, flags |-> {}]
HasSetup(perms) == "USER_SETUP" \in perms.modules

NoRole == [exists |-> FALSE]
Role == {NoRole} \cup [exists : {TRUE}, name : Names, perms : Permissions, system : BOOLEAN]

NoAct == [step |-> "idle"]
Act ==
  {NoAct} \cup [step : {"clear", "write"}, rename : Names \cup {"kept"}, gives : BOOLEAN,
                perms : Permissions, bare : BOOLEAN]
  \cup [step : {"delete", "address", "insert", "invite"}]

AccessTypeOK ==
  /\ role \in Role
  /\ names \subseteq Names
  /\ given \subseteq SUBSET Flags
  /\ holder \in BOOLEAN
  /\ invited \in 0 .. MaxRequests
  /\ act \in [Clerks -> Act]
  /\ asked \in 0 .. MaxRequests
  /\ breaks \in 0 .. MaxBreaks
  /\ wroteBare \in BOOLEAN

\* The roles the database is seeded with have a permission on every module: Admin with
\* all flags, DPO, Operator, Compliance, Auditor and Viewer with some.
SeededFlags(name) ==
  IF name = "Admin" THEN {Flags}
  ELSE {Flags \cap seeded :
          seeded \in {{"view", "edit", "approve", "export"}, {"view", "edit"},
                     {"view", "edit", "export"}, {"view", "export"}, {"view"}}}

Seeded(name) ==
  [exists : {TRUE}, name : {name}, perms : [modules : {Modules}, flags : SeededFlags(name)],
   system : {TRUE}]

GivenAtFirst(perms) == IF HasSetup(perms) THEN {perms.flags} ELSE {}

\* One of them, or a role that is yet to be made.
AccessInit ==
  /\ role \in {NoRole} \cup Seeded("Admin") \cup Seeded("Other")
  /\ names = IF role.exists THEN {role.name} ELSE {}
  /\ given = IF role.exists THEN GivenAtFirst(role.perms) ELSE {}
  /\ holder = FALSE
  /\ invited = 0
  /\ act = [c \in Clerks |-> NoAct]
  /\ asked = 0 /\ breaks = 0
  /\ wroteBare = FALSE

------------------------------------------------------------------------------
(* Calls.                                                                  *)

ActGoes(c, to) == act' = [act EXCEPT ![c] = to]

ActBegins(c, to) ==
  /\ act[c] = NoAct
  /\ asked < MaxRequests
  /\ asked' = asked + 1
  /\ ActGoes(c, to)
  /\ UNCHANGED breaks

ActContinues(c, step, to) ==
  /\ act[c].step = step
  /\ ActGoes(c, to)
  /\ UNCHANGED <<asked, breaks>>

Waits(step) == [step |-> step]

\* A call breaks off between two of its statements: the process stops, or one of them
\* fails, as the second of an update does that lists a module twice.
ActBreaks(c) ==
  /\ act[c] # NoAct
  /\ breaks < MaxBreaks
  /\ breaks' = breaks + 1
  /\ ActGoes(c, NoAct)
  /\ UNCHANGED <<roleVars, holder, invited, asked>>

------------------------------------------------------------------------------
(* Roles.                                                                  *)

\* removeUserSetupPermissions: only a role called Admin, in letters of any case, is
\* given a permission on USER_SETUP.
WithoutUserSetup(name, wanted) ==
  IF name \in Admins THEN wanted
  ELSE [modules |-> wanted.modules \ {"USER_SETUP"}, flags |-> {}]

\* A role that has never been there is made.
CreateRole(c) ==
  /\ names = {}
  /\ \E name \in Names, wanted \in Permissions, system \in BOOLEAN :
       /\ role' = [exists |-> TRUE, name |-> name, perms |-> WithoutUserSetup(name, wanted),
                   system |-> system]
       /\ names' = {name}
  /\ given' = GivenAtFirst(role'.perms)
  /\ ActBegins(c, NoAct)
  /\ UNCHANGED <<wroteBare, holder, invited>>

Cleared(c) == act[c].step = "write" /\ act[c].gives

\* Mutant: the permission the role has already is not kept.
AllowedAnew(name, wanted) == WithoutUserSetup(name, wanted)

\* What an update may give: an Admin role keeps the permission on USER_SETUP it has, if
\* the update names none; one that it names replaces it, with whatever flags it brings.
AllowedPermissions(name, wanted) ==
  IF name \in Admins /\ ~HasSetup(wanted) /\ HasSetup(role.perms)
  THEN [modules |-> wanted.modules \cup {"USER_SETUP"}, flags |-> role.perms.flags]
  ELSE WithoutUserSetup(name, wanted)

Named(name, wanted) ==
  IF given # {} /\ name \in Admins /\ HasSetup(wanted) THEN {wanted.flags} ELSE {}

\* An update reads the role, and settles on the permissions if it brings any.
ReadRole(c) ==
  /\ role.exists
  /\ \E rename \in Names \cup {"kept"}, gives \in BOOLEAN, wanted \in Permissions :
       LET name == IF rename = "kept" THEN role.name ELSE rename IN
       /\ ~gives => wanted = Bare
       /\ ActBegins(c, [step |-> IF gives THEN "clear" ELSE "write", rename |-> rename, gives |-> gives,
                        perms |-> IF gives THEN AllowedPermissions(name, wanted) ELSE Bare,
                        bare |-> gives /\ ~HasSetup(role.perms)])
       /\ given' = given \cup Named(name, wanted)
  /\ UNCHANGED <<role, names, wroteBare, holder, invited>>

\* The permissions it had are deleted ...
ClearPermissions(c) ==
  /\ ActContinues(c, "clear", [act[c] EXCEPT !.step = "write"])
  /\ role' = IF role.exists THEN [role EXCEPT !.perms = Bare] ELSE role
  /\ UNCHANGED <<names, given, wroteBare, holder, invited>>

\* ... and the role is written with the new ones.  It fails as a whole when the role
\* is gone, or has a permission on one of the modules again.
WriteRole(c) ==
  LET a == act[c] IN
  /\ ActContinues(c, "write", NoAct)
  /\ IF role.exists /\ (a.gives => a.perms.modules \cap role.perms.modules = {})
     THEN \E system \in BOOLEAN :
            /\ role' = [role EXCEPT !.name = IF a.rename = "kept" THEN @ ELSE a.rename,
                                    !.perms = [modules |-> @.modules \cup a.perms.modules,
                                               flags |-> @.flags \cup a.perms.flags],
                                    !.system = system]
            /\ names' = names \cup {role'.name}
            /\ wroteBare' = (wroteBare \/ a.bare)
     ELSE UNCHANGED <<role, names, wroteBare>>
  /\ UNCHANGED <<given, holder, invited>>

\* A system role is not deleted ...
FindRole(c) ==
  /\ role.exists /\ ~role.system
  /\ ActBegins(c, Waits("delete"))
  /\ UNCHANGED <<roleVars, holder, invited>>

\* ... nor one an invitation refers to; the users lose the one that is.
DeleteRole(c) ==
  /\ ActContinues(c, "delete", NoAct)
  /\ IF role.exists /\ invited = 0
     THEN role' = NoRole
     ELSE UNCHANGED role
  /\ UNCHANGED <<names, given, wroteBare, holder, invited>>

\* RolesGuard: whether the one who holds the role may call what takes this flag of the
\* permission on USER_SETUP.
Grants(flag) == role.exists /\ HasSetup(role.perms) /\ flag \in role.perms.flags

\* A role that may only look at users does not manage them.
CanManage == \E flag \in Managing : Grants(flag)

------------------------------------------------------------------------------
(* Users and invitations.                                                  *)

\* A user is made with the role: one that manages users is refused, unless it is
\* called Admin, written so ...
CheckRoles(c) ==
  /\ names # {}
  /\ role.exists => role.name = "Admin" \/ ~CanManage
  /\ ActBegins(c, Waits("address"))
  /\ UNCHANGED <<roleVars, holder, invited>>

\* ... then the address is looked up ...
CheckAddress(c) ==
  /\ ActContinues(c, "address", IF holder THEN NoAct ELSE Waits("insert"))
  /\ UNCHANGED <<roleVars, holder, invited>>

\* ... and the row is made, unless the address is taken by now or the role is gone.
CreateUser(c) ==
  /\ ActContinues(c, "insert", NoAct)
  /\ holder' = (holder \/ role.exists)
  /\ UNCHANGED <<roleVars, invited>>

\* An invitation is made if none of the address is pending.  That a user has the
\* address is looked up too, but the column holds it encrypted with a salt and is
\* never equal to it.
CheckInvitation(c) ==
  /\ names # {} /\ invited = 0
  /\ ActBegins(c, Waits("invite"))
  /\ UNCHANGED <<roleVars, holder, invited>>

CreateInvitation(c) ==
  /\ ActContinues(c, "invite", NoAct)
  /\ invited' = IF role.exists THEN invited + 1 ELSE invited
  /\ UNCHANGED <<roleVars, holder>>

\* An invitation is deleted.  Sending it again leaves it pending: nothing in the
\* program accepts it or lets it expire.
RemoveInvitation(c) ==
  /\ invited > 0
  /\ invited' = invited - 1
  /\ ActBegins(c, NoAct)
  /\ UNCHANGED <<roleVars, holder>>

------------------------------------------------------------------------------
RoleCall(c) ==
  CreateRole(c) \/ ReadRole(c) \/ ClearPermissions(c) \/ WriteRole(c) \/ FindRole(c) \/ DeleteRole(c)

PeopleCall(c) ==
  \/ CheckRoles(c) \/ CheckAddress(c) \/ CreateUser(c)
  \/ CheckInvitation(c) \/ CreateInvitation(c) \/ RemoveInvitation(c)

AccessNext == \E c \in Clerks : RoleCall(c) \/ PeopleCall(c) \/ ActBreaks(c)

AccessSpec == AccessInit /\ [][AccessNext]_accessVars

------------------------------------------------------------------------------
(* Properties.                                                             *)

\* A role always called Admin keeps its permission on USER_SETUP, with the flags it was
\* made with or those that an update named since, so that an update that only brings
\* other permissions takes nobody's management of users away: but not between the two
\* statements of an update, after one that broke off there, or once one is written
\* that read the role in between.
AdminKeepsUserSetup ==
  role.exists /\ names \subseteq Admins /\ given # {} =>
    \/ HasSetup(role.perms) /\ role.perms.flags \in given
    \/ (\E c \in Clerks : Cleared(c)) \/ breaks > 0 \/ wroteBare

\* Nobody is made a user with a role that manages users if it was never called Admin,
\* although the role is checked before the user is made and may be updated in
\* between.
HeldRoleDoesNotManage == holder /\ names = {"Other"} => ~CanManage

\* The address has no more pending invitations than there are calls in flight at a
\* time: it is checked before one is made.
InvitedWithinCalls == invited =< Cardinality(Clerks)

\* What roles, users and invitations keep although no call is a transaction.
AccessHolds ==
  /\ AdminKeepsUserSetup
  /\ HeldRoleDoesNotManage
  /\ InvitedWithinCalls
=============================================================================
