------------------------------ MODULE MCAccess ------------------------------
(***************************************************************************)
(* Sessions and permissions share no table but the user's row, of which    *)
(* each of the two modules keeps what it reads.  A behavior of this module *)
(* is one of either, two requests at a time in both: on three sessions of  *)
(* a user, or on two users, the overrides of the second of them, and one   *)
(* more run of the seed.                                                   *)
(***************************************************************************)
EXTENDS AuthSessions, TLC

CONSTANTS Inputs, Overridden, MaxUsers, MaxReplacements, MaxSeeds

VARIABLES part, users, rolePermissions, overrides, userRequest, seed, commits

Permissions == INSTANCE Users WITH request <- userRequest

permissionVars == <<users, rolePermissions, overrides, userRequest, seed, commits>>

accessVars == <<part, vars, permissionVars>>

AccessInit ==
    /\ part \in {"sessions", "permissions"}
    /\ Init
    /\ Permissions!Init

AccessNext ==
    \/ part = "sessions" /\ Next /\ UNCHANGED <<part, permissionVars>>
    \/ part = "permissions" /\ Permissions!Next /\ UNCHANGED <<part, vars>>

AccessSpec == AccessInit /\ [][AccessNext]_accessVars

Symmetric == Permutations(Slots)

Body(manage, read) ==
    [key \in {"user.manage", "customer.read"} |-> IF key = "user.manage" THEN manage ELSE read]

MCInputs == {Body("allow", "none"), Body("deny", "none"), Body("none", "allow")}

ASSUME InputsAssumption == Inputs \subseteq Permissions!Bodies

ASSUME BoundsAssumption == MaxUsers \in Nat \ {0} /\ {MaxReplacements, MaxSeeds} \subseteq Nat

-----------------------------------------------------------------------------
\* The type invariant of Users.
UsersTypeOK == Permissions!TypeOK

\* The properties of Users, under their names and as they are explained there:
\* nobody is let in with a permission put together from two changes.
AdmittedHeldPermission == Permissions!AdmittedHeldPermission

\* Replacements of a user's overrides only ever mix when they overlap.
OverridesOfConcurrent == Permissions!OverridesOfConcurrent

\* Only an overtaken request deactivates the last active user.
LastActiveOvertaken == [][Permissions!ByOvertaken]_permissionVars
=============================================================================
