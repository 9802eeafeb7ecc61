---------------------------- MODULE MCGitWrites ----------------------------
(* Small instances of GitWrites for TLC: two clusters and one addon.        *)
EXTENDS GitWrites, TLC

CONSTANTS c1, c2, addon

Ops(kinds, autos) ==
    {o \in [kind : kinds \ {"upgrade"}, clusters : {{c} : c \in Cluster}, addon : Addon, auto : autos] :
        o.kind \in {"add", "edit", "delete"} => o.clusters = {c1}}
    \cup [kind : kinds \cap {"upgrade"}, clusters : (SUBSET Cluster) \ {{}}, addon : Addon, auto : autos]

\* Every kind merges itself; those that the others resemble need no person.
AllOps == Ops(Kinds, {TRUE})
          \cup Ops({"register", "remove", "enable", "disable", "upgrade", "addEnable", "delete"}, {FALSE})
RegisterOps == Ops({"register"}, {FALSE})

Symmetry == Permutations(Request)
=============================================================================
