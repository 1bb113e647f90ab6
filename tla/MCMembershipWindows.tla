-------------------------- MODULE MCMembershipWindows --------------------------
(***************************************************************************)
(* A table that is shared, or has two tenants.  Jobs, symbols and tenants  *)
(* are interchangeable.                                                    *)
(***************************************************************************)
EXTENDS MembershipWindows

CONSTANTS a, b, t1, t2, j1, j2

mcSymmetry == Permutations(Jobs) \cup Permutations(Symbols) \cup Permutations({t1, t2})

mcWriters == {{NoTenant}, {t1, t2}}
=============================================================================
