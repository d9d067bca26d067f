----------------------------- MODULE MCJobsDAG -----------------------------
(* JobsDAG for TLC: small sets of invocations. *)
EXTENDS JobsDAG, TLC

\* Lists are told apart by what they contain and how often, not by its order.
NameOrder == CHOOSE s \in [1..Cardinality(Names) -> Names] :
               \A i, j \in DOMAIN s : i # j => s[i] # s[j]
Rank(n) == CHOOSE i \in DOMAIN NameOrder : NameOrder[i] = n
Ordered == {r \in RequireLists :
              \A i, j \in DOMAIN r : i < j => Rank(r[i]) <= Rank(r[j])}

\* Any name, any list, no `name:' key; and with one.
NotRenamed == {v \in [job : Names, step : Names, requires : Ordered] : v.job = v.step}
MayBeRenamed == [job : Names, step : Names, requires : {<<>>} \union {<<n>> : n \in Names}]

IdSymmetry == Permutations(Ids)
=============================================================================
