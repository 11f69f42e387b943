-------------------------- MODULE MigrationsProofs --------------------------
(***************************************************************************)
(* Migrations, for any number of replicas of any builds, scripts of any    *)
(* length and any number of faults.                                        *)
(***************************************************************************)
EXTENDS Migrations, TLAPS

Statements == Versions \X (1 .. Size + 1)

InTransaction(p) == pc[p] \in {"exec", "commit"}

-----------------------------------------------------------------------------
(***************************************************************************)
(* The inductive invariant.  What a transaction has passed is there, or is *)
(* of its own making; no object is made twice, so a record belongs to one  *)
(* commit; and a replica has behind it only what is recorded.              *)
(***************************************************************************)
Passed ==
    \A p \in Replicas : InTransaction(p) =>
       /\ {version[p]} \X (1 .. (statement[p] - 1)) \subseteq made[p] \cup schema
       /\ pc[p] = "exec" => statement[p] <= Size + 1
       /\ pc[p] = "commit" => statement[p] = Size + 2 /\ Row(version[p]) \in made[p]

MadeOnce ==
    /\ \A p \in Replicas : made[p] \cap schema = {}
    /\ \A p, q \in Replicas : p # q => made[p] \cap made[q] = {}

Counted == \A v \in Versions : commits[v] = IF v \in Recorded THEN 1 ELSE 0

Behind ==
    /\ \A p \in Replicas : applied[p] \subseteq Recorded
    /\ \A p \in Replicas : pc[p] \in {"read", "loop", "exec", "commit"} =>
          1 .. (version[p] - 1) \subseteq Recorded

IInv ==
    /\ TypeOK /\ Passed /\ MadeOnce /\ Counted /\ Behind
    /\ AllOrNothing /\ InOrder /\ ServesOnItsSchema

LEMMA VersionFacts ==
    /\ \A v \in Versions : v \in Nat /\ v >= 1 /\ 1 .. v \subseteq Versions
    /\ \A p \in Replicas : 1 .. Known[p] \subseteq Versions
BY KnownAssumption DEF Versions

LEMMA InvariantInit == Init => IInv
<1> SUFFICES ASSUME Init PROVE IInv
  OBVIOUS
<1>1. TypeOK
  BY MaxFaultsAssumption DEF Init, TypeOK, Steps
<1>2. Passed /\ MadeOnce /\ ServesOnItsSchema
  BY DEF Init, Passed, InTransaction, MadeOnce, ServesOnItsSchema
<1>3. Recorded = {}
  BY DEF Init, Recorded
<1>4. Counted /\ Behind /\ AllOrNothing /\ InOrder
  BY <1>3, VersionFacts DEF Init, Counted, Behind, AllOrNothing, InOrder, Objects
<1> QED
  BY <1>1, <1>2, <1>4 DEF IInv

-----------------------------------------------------------------------------
(***************************************************************************)
(* Steps that leave the schema alone keep all that is said of it, and all  *)
(* that is said of the other replicas.                                     *)
(***************************************************************************)
SchemaStays == UNCHANGED <<schema, commits>>

LEMMA SchemaKept ==
    ASSUME IInv, SchemaStays
    PROVE  Counted' /\ AllOrNothing' /\ InOrder' /\ Recorded' = Recorded
BY DEF SchemaStays, IInv, Counted, AllOrNothing, InOrder, Recorded

\* The replica leaves its transaction, or was in none.
LEMMA OutsideStep ==
    ASSUME IInv, NEW p \in Replicas, TypeOK',
           Boot(p) \/ AppliedVersions(p) \/ Serve(p) \/ (\E n \in Nat : Exit(p) /\ faults' = n)
    PROVE  IInv'
<1>1. SchemaStays
  BY DEF SchemaStays, Boot, AppliedVersions, Serve, Exit
<1>2. /\ ~InTransaction(p)'
      /\ \A q \in Replicas : made'[q] \subseteq made[q]
      /\ \A q \in Replicas \ {p} :
            /\ pc'[q] = pc[q] /\ made'[q] = made[q] /\ version'[q] = version[q]
            /\ statement'[q] = statement[q] /\ applied'[q] = applied[q]
  BY DEF Boot, AppliedVersions, Serve, Exit, GoTo, InTransaction, IInv, TypeOK
<1>3. Passed'
  BY <1>1, <1>2 DEF SchemaStays, Passed, InTransaction, IInv, Row
<1>4. MadeOnce'
  BY <1>1, <1>2 DEF SchemaStays, MadeOnce, IInv
<1>5. Behind'
  BY <1>1, <1>2, SchemaKept
     DEF Boot, AppliedVersions, Serve, Exit, GoTo, Behind, IInv, TypeOK
<1>6. ServesOnItsSchema'
  <2>1. CASE Serve(p)
    <3>1. 1 .. (version[p] - 1) \subseteq Recorded /\ version[p] .. Known[p] \subseteq Recorded
      BY <2>1 DEF Serve, Behind, IInv
    <3>2. version[p] \in Nat \ {0} /\ Known[p] \in Nat
      BY KnownAssumption DEF IInv, TypeOK
    <3>3. 1 .. Known[p] \subseteq Recorded
      BY <3>1, <3>2
    <3> QED
      BY <1>1, <1>2, <3>3, SchemaKept DEF ServesOnItsSchema, IInv
  <2>2. CASE pc'[p] # "serving"
    BY <1>1, <1>2, <2>2, SchemaKept DEF ServesOnItsSchema, IInv
  <2> QED
    BY <2>1, <2>2 DEF Boot, AppliedVersions, Exit, GoTo, IInv, TypeOK
<1> QED
  BY <1>1, <1>3, <1>4, <1>5, <1>6, SchemaKept DEF IInv

-----------------------------------------------------------------------------
(***************************************************************************)
(* The steps of a transaction.                                             *)
(***************************************************************************)
LEMMA BeginStep ==
    ASSUME IInv, NEW p \in Replicas, TypeOK', BeginTransaction(p)
    PROVE  IInv'
<1>1. PICK v \in version[p] .. Known[p] :
         version[p] .. (v - 1) \subseteq applied[p] /\ version' = [version EXCEPT ![p] = v]
  BY DEF BeginTransaction, Pending
<1>2. /\ SchemaStays /\ made' = made /\ applied' = applied
      /\ pc' = [pc EXCEPT ![p] = "exec"] /\ statement' = [statement EXCEPT ![p] = 1]
      /\ pc[p] = "loop"
  BY DEF BeginTransaction, GoTo, SchemaStays
<1>3. 1 .. (v - 1) \subseteq Recorded
  <2>1. 1 .. (version[p] - 1) \subseteq Recorded /\ version[p] .. (v - 1) \subseteq Recorded
    BY <1>1, <1>2 DEF IInv, Behind
  <2> QED
    BY <2>1, KnownAssumption DEF IInv, TypeOK
<1>4. Passed'
  <2>1. /\ pc'[p] = "exec" /\ statement'[p] = 1
        /\ \A s \in Replicas \ {p} :
              pc'[s] = pc[s] /\ statement'[s] = statement[s] /\ version'[s] = version[s]
    BY <1>1, <1>2 DEF IInv, TypeOK
  <2>2. {version'[p]} \X (1 .. (statement'[p] - 1)) = {}
    BY <2>1
  <2>3. statement'[p] =< Size + 1
    BY <2>1, KnownAssumption
  <2>4. ASSUME NEW s \in Replicas \ {p}, InTransaction(s)'
        PROVE  InTransaction(s)
    BY <2>1, <2>4 DEF InTransaction
  <2> QED
    BY <1>2, <2>1, <2>2, <2>3, <2>4 DEF Passed, SchemaStays, IInv
<1>5. MadeOnce' /\ ServesOnItsSchema'
  BY <1>2, SchemaKept DEF SchemaStays, MadeOnce, ServesOnItsSchema, IInv, TypeOK
<1>6. Behind'
  BY <1>1, <1>2, <1>3, SchemaKept DEF Behind, IInv, TypeOK
<1> QED
  BY <1>2, <1>4, <1>5, <1>6, SchemaKept DEF IInv

LEMMA BlockStep ==
    ASSUME IInv, NEW p \in Replicas, TypeOK', ExecBlocks(p)
    PROVE  IInv'
<1>1. SchemaStays /\ UNCHANGED <<pc, applied, version, statement, made, schema>>
  BY DEF ExecBlocks, SchemaStays
<1>2. Passed' /\ MadeOnce' /\ ServesOnItsSchema' /\ Behind'
  BY <1>1, SchemaKept DEF Passed, InTransaction, MadeOnce, ServesOnItsSchema, Behind, IInv, Row
<1> QED
  BY <1>1, <1>2, SchemaKept DEF IInv

LEMMA ExecStep ==
    ASSUME IInv, NEW p \in Replicas, TypeOK', Exec(p)
    PROVE  IInv'
<1> DEFINE v == version[p]
           i == statement[p]
<1>1. /\ SchemaStays /\ schema' = schema /\ applied' = applied /\ version' = version
      /\ pc[p] = "exec" /\ pc' = [pc EXCEPT ![p] = IF i > Size THEN "commit" ELSE "exec"]
      /\ statement' = [statement EXCEPT ![p] = i + 1]
      /\ made' = [made EXCEPT ![p] = IF Missing(p) THEN @ \cup {<<v, i>>} ELSE @]
  BY DEF Exec, GoTo, SchemaStays, Target
<1>2. /\ i \in Nat \ {0} /\ i <= Size + 1 /\ v \in Nat /\ Size \in Nat
      /\ {v} \X (1 .. (i - 1)) \subseteq made[p] \cup schema
  BY <1>1, KnownAssumption DEF IInv, TypeOK, Passed, InTransaction
<1>3. /\ <<v, i>> \in made'[p] \cup schema
      /\ i > Size => <<v, i>> \in made'[p]
      /\ made[p] \subseteq made'[p]
  <2>1. Missing(p) \/ (<<v, i>> \in schema /\ i <= Size)
    BY DEF Exec, Duplicate, AlreadyThere, Target
  <2>2. made'[p] = IF Missing(p) THEN made[p] \cup {<<v, i>>} ELSE made[p]
    BY <1>1 DEF IInv, TypeOK
  <2>3. i > Size => Missing(p)
    BY <1>2, <2>1
  <2> QED
    BY <2>1, <2>2, <2>3
<1>4. Passed'
  <2>1. {v} \X (1 .. i) \subseteq made'[p] \cup schema
    BY <1>2, <1>3
  <2>2. pc'[p] = "commit" => i + 1 = Size + 2 /\ Row(v) \in made'[p]
    BY <1>1, <1>2, <1>3 DEF Row, IInv, TypeOK
  <2>3. ASSUME NEW q \in Replicas \ {p}
        PROVE  /\ pc'[q] = pc[q] /\ statement'[q] = statement[q] /\ made'[q] = made[q]
    BY <1>1 DEF IInv, TypeOK
  <2>4. /\ statement'[p] = i + 1 /\ (pc'[p] = "exec" => i + 1 <= Size + 1)
        /\ 1 .. (i + 1 - 1) = 1 .. i
    BY <1>1, <1>2 DEF IInv, TypeOK
  <2> DEFINE Holds(q) == InTransaction(q) =>
               /\ {version[q]} \X (1 .. (statement[q] - 1)) \subseteq made[q] \cup schema
               /\ pc[q] = "exec" => statement[q] <= Size + 1
               /\ pc[q] = "commit" => statement[q] = Size + 2 /\ Row(version[q]) \in made[q]
  <2>5. Holds(p)'
    <3>1. statement'[p] - 1 = i /\ version'[p] = v
      BY <1>1, <1>2, <2>4
    <3>2. {version'[p]} \X (1 .. (statement'[p] - 1)) \subseteq made'[p] \cup schema'
      BY <1>1, <2>1, <3>1
    <3> QED
      BY <2>2, <2>4, <3>1, <3>2 DEF Row
  <2>6. ASSUME NEW q \in Replicas \ {p} PROVE Holds(q)'
    BY <1>1, <2>3 DEF Passed, InTransaction, IInv, Row
  <2> QED
    BY <2>5, <2>6 DEF Passed
<1>5. MadeOnce'
  <2>1. <<v, i>> \notin schema \/ made' = made
    BY <1>1 DEF Missing, Target, IInv, TypeOK
  <2>2. \A q \in Replicas \ {p} : <<v, i>> \notin made[q] /\ made'[q] = made[q]
    BY <1>1 DEF Exec, Locked, Target, IInv, TypeOK
  <2>3. made'[p] \subseteq made[p] \cup {<<v, i>>}
    BY <1>1 DEF IInv, TypeOK
  <2> QED
    BY <1>1, <2>1, <2>2, <2>3 DEF MadeOnce, IInv
<1>6. ServesOnItsSchema' /\ Behind'
  BY <1>1, SchemaKept DEF ServesOnItsSchema, Behind, IInv, TypeOK
<1> QED
  BY <1>1, <1>4, <1>5, <1>6, SchemaKept DEF IInv

LEMMA CommitStep ==
    ASSUME IInv, NEW p \in Replicas, TypeOK', Commit(p) \/ CommitUnacknowledged(p)
    PROVE  IInv'
<1> DEFINE v == version[p]
<1>1. /\ pc[p] = "commit" /\ schema' = schema \cup made[p] /\ made' = [made EXCEPT ![p] = {}]
      /\ commits' = [commits EXCEPT ![v] = @ + 1] /\ applied' = applied /\ statement' = statement
      /\ \/ pc' = [pc EXCEPT ![p] = "loop"] /\ version' = [version EXCEPT ![p] = v + 1]
         \/ pc' = [pc EXCEPT ![p] = "down"] /\ version' = version
  BY DEF Commit, CommitUnacknowledged, GoTo
<1>2. /\ v \in 1 .. Known[p] /\ v \in Versions /\ v \in Nat
      /\ made[p] \subseteq {v} \X (1 .. (statement[p] - 1)) /\ statement[p] = Size + 2
      /\ {v} \X (1 .. (Size + 1)) \subseteq made[p] \cup schema
      /\ Row(v) \in made[p] /\ Size \in Nat
  <2>1. /\ InTransaction(p) /\ Size \in Nat /\ Known[p] \in Nat
    BY <1>1, KnownAssumption DEF InTransaction
  <2>2. /\ v \in 1 .. Known[p] /\ made[p] \subseteq {v} \X (1 .. (statement[p] - 1))
    BY <2>1 DEF InTransaction, IInv, TypeOK
  <2>3. /\ statement[p] = Size + 2 /\ Row(v) \in made[p]
        /\ {v} \X (1 .. (statement[p] - 1)) \subseteq made[p] \cup schema
    BY <1>1, <2>1 DEF IInv, Passed
  <2>4. Size + 2 - 1 = Size + 1
    BY <2>1
  <2> QED
    BY <2>1, <2>2, <2>3, <2>4, VersionFacts
<1>3. Recorded' = Recorded \cup {v} /\ v \notin Recorded
  BY <1>1, <1>2 DEF Recorded, Row, IInv, MadeOnce
<1>4. /\ \A q \in Replicas \ {p} :
            /\ made'[q] = made[q] /\ version'[q] = version[q] /\ pc'[q] = pc[q]
            /\ statement'[q] = statement[q]
      /\ made'[p] = {} /\ pc'[p] \in {"loop", "down"} /\ ~InTransaction(p)'
      /\ pc'[p] = "loop" => version'[p] = v + 1
  BY <1>1 DEF IInv, TypeOK, InTransaction
<1>5. Passed'
  BY <1>1, <1>4 DEF Passed, InTransaction, IInv, Row
<1>6. MadeOnce'
  BY <1>1, <1>4 DEF MadeOnce, IInv
<1>7. Counted'
  BY <1>1, <1>2, <1>3 DEF Counted, IInv, TypeOK
<1>8. 1 .. (v - 1) \subseteq Recorded
  BY <1>1 DEF Behind, IInv
<1>9. Behind'
  <2>1. pc'[p] = "loop" => 1 .. (version'[p] - 1) \subseteq Recorded'
    <3>1. pc'[p] = "loop" => version'[p] - 1 = v
      BY <1>2, <1>4
    <3> QED
      BY <1>2, <1>3, <1>8, <3>1
  <2>2. ASSUME NEW q \in Replicas \ {p}, pc'[q] \in {"read", "loop", "exec", "commit"}
        PROVE  1 .. (version'[q] - 1) \subseteq Recorded'
    BY <1>3, <1>4, <2>2 DEF Behind, IInv
  <2>3. \A q \in Replicas : applied'[q] \subseteq Recorded'
    BY <1>1, <1>3 DEF Behind, IInv
  <2> QED
    BY <1>4, <2>1, <2>2, <2>3 DEF Behind
<1>10. InOrder'
  <2>1. 1 .. v \subseteq Recorded'
    BY <1>2, <1>3, <1>8
  <2> QED
    BY <1>3, <2>1 DEF InOrder, IInv
<1>11. AllOrNothing'
  <2>1. Objects(v) \subseteq schema'
    BY <1>1, <1>2 DEF Objects
  <2>2. ASSUME NEW w \in Versions \ {v} PROVE Objects(w) \cap schema' = Objects(w) \cap schema
    BY <1>1, <1>2 DEF Objects
  <2>3. schema \subseteq schema'
    BY <1>1
  <2>4. ASSUME NEW w \in Versions \ {v}
        PROVE  IF w \in Recorded THEN Objects(w) \subseteq schema'
               ELSE Objects(w) \cap schema' = {}
    BY <2>2, <2>3 DEF AllOrNothing, IInv
  <2> QED
    BY <1>3, <2>1, <2>4 DEF AllOrNothing, Objects
<1>12. ServesOnItsSchema'
  BY <1>3, <1>4 DEF ServesOnItsSchema, IInv
<1> QED
  BY <1>5, <1>6, <1>7, <1>9, <1>10, <1>11, <1>12 DEF IInv

-----------------------------------------------------------------------------
(***************************************************************************)
(* Types, and the step as a whole.                                         *)
(***************************************************************************)
LEMMA TypesStep == IInv /\ [Next]_vars => TypeOK'
<1> SUFFICES ASSUME IInv, [Next]_vars PROVE TypeOK'
  OBVIOUS
<1>0. TypeOK /\ Size \in Nat /\ Known \in [Replicas -> Nat]
  BY KnownAssumption DEF IInv
<1>1. CASE UNCHANGED vars
  BY <1>0, <1>1 DEF vars, local, TypeOK
<1>2. ASSUME NEW p \in Replicas, Exit(p), faults' \in 0 .. MaxFaults
      PROVE  TypeOK'
  <2>1. /\ pc' = [pc EXCEPT ![p] = "down"] /\ made' = [made EXCEPT ![p] = {}]
        /\ waited' = [waited EXCEPT ![p] = FALSE]
        /\ UNCHANGED <<applied, version, statement, schema, commits>>
    BY <1>2 DEF Exit, GoTo
  <2>2. /\ pc' \in [Replicas -> Steps] /\ waited' \in [Replicas -> BOOLEAN]
        /\ made' \in [Replicas -> SUBSET (Versions \X (1 .. Size + 1))]
    BY <1>0, <2>1 DEF TypeOK, Steps
  <2>3. /\ pc'[p] = "down" /\ made'[p] = {}
        /\ \A q \in Replicas \ {p} : pc'[q] = pc[q] /\ made'[q] = made[q]
    BY <1>0, <2>1 DEF TypeOK
  <2>4. ASSUME NEW q \in Replicas
        PROVE  IF pc'[q] \in {"exec", "commit"}
                  THEN /\ version'[q] \in 1 .. Known[q]
                       /\ made'[q] \subseteq {version'[q]} \X (1 .. (statement'[q] - 1))
                  ELSE made'[q] = {}
    <3>1. CASE q = p
      BY <2>3, <3>1
    <3>2. CASE q # p
      BY <1>0, <2>1, <2>3, <3>2 DEF TypeOK
    <3> QED
      BY <3>1, <3>2
  <2> QED
    BY <1>0, <1>2, <2>1, <2>2, <2>4 DEF TypeOK
<1>3. ASSUME NEW p \in Replicas, Boot(p) \/ Serve(p) \/ ExecBlocks(p)
      PROVE  TypeOK'
  <2>1. CASE Boot(p)
    BY <1>0, <2>1 DEF Boot, GoTo, TypeOK, Steps
  <2>2. CASE Serve(p)
    BY <1>0, <2>2 DEF Serve, GoTo, TypeOK, Steps
  <2>3. CASE ExecBlocks(p)
    BY <1>0, <2>3 DEF ExecBlocks, TypeOK
  <2> QED
    BY <1>3, <2>1, <2>2, <2>3
<1>4. ASSUME NEW p \in Replicas, AppliedVersions(p)
      PROVE  TypeOK'
  BY <1>0, <1>4 DEF AppliedVersions, GoTo, TypeOK, Steps, Recorded
<1>5. ASSUME NEW p \in Replicas, BeginTransaction(p)
      PROVE  TypeOK'
  <2>1. PICK v \in version[p] .. Known[p] : version' = [version EXCEPT ![p] = v]
    BY <1>5 DEF BeginTransaction, Pending
  <2>2. v \in 1 .. Known[p] /\ v \in Nat \ {0}
    BY <1>0, <2>1 DEF TypeOK
  <2>3. made[p] = {}
    BY <1>0, <1>5 DEF BeginTransaction, TypeOK
  <2> QED
    BY <1>0, <1>5, <2>1, <2>2, <2>3 DEF BeginTransaction, GoTo, TypeOK, Steps
<1>6. ASSUME NEW p \in Replicas, Exec(p)
      PROVE  TypeOK'
  <2> DEFINE v == version[p]
             i == statement[p]
  <2>1. /\ i \in Nat \ {0} /\ i <= Size + 1 /\ v \in 1 .. Known[p] /\ v \in Versions
        /\ made[p] \subseteq {v} \X (1 .. (i - 1))
    BY <1>0, <1>6, VersionFacts DEF Exec, IInv, TypeOK, Passed, InTransaction
  <2>2. /\ made'[p] \subseteq {v} \X (1 .. i) /\ made'[p] \subseteq Versions \X (1 .. Size + 1)
        /\ made' = [made EXCEPT ![p] = made'[p]]
    BY <1>0, <1>6, <2>1 DEF Exec, Target, TypeOK
  <2>3. /\ statement' = [statement EXCEPT ![p] = i + 1] /\ version' = version
        /\ pc' = [pc EXCEPT ![p] = IF i > Size THEN "commit" ELSE "exec"] /\ pc[p] = "exec"
        /\ waited' = [waited EXCEPT ![p] = FALSE] /\ UNCHANGED <<applied, schema, faults, commits>>
    BY <1>6 DEF Exec, GoTo
  <2>4. statement'[p] - 1 = i /\ statement'[p] \in Nat \ {0}
    BY <1>0, <2>1, <2>3 DEF TypeOK
  <2> QED
    BY <1>0, <2>1, <2>2, <2>3, <2>4 DEF TypeOK, Steps
<1>7. ASSUME NEW p \in Replicas, Commit(p) \/ CommitUnacknowledged(p)
      PROVE  TypeOK'
  <2>1. version[p] \in 1 .. Known[p] /\ version[p] \in Versions /\ pc[p] = "commit"
    BY <1>0, <1>7, VersionFacts DEF Commit, CommitUnacknowledged, TypeOK
  <2>2. commits' \in [Versions -> Nat] /\ faults' \in 0 .. MaxFaults
    BY <1>0, <1>7, <2>1, MaxFaultsAssumption DEF Commit, CommitUnacknowledged, Fault, TypeOK
  <2> QED
    BY <1>0, <1>7, <2>1, <2>2 DEF Commit, CommitUnacknowledged, GoTo, TypeOK, Steps
<1>8. ASSUME NEW p \in Replicas, ExecFails(p) \/ Dies(p)
      PROVE  TypeOK'
  <2>1. Exit(p) /\ faults' \in 0 .. MaxFaults
    BY <1>0, <1>8, MaxFaultsAssumption DEF ExecFails, Dies, Fault, TypeOK
  <2> QED
    BY <1>2, <2>1
<1> QED
  BY <1>1, <1>3, <1>4, <1>5, <1>6, <1>7, <1>8 DEF Next, Run

LEMMA InvariantStep == IInv /\ [Next]_vars => IInv'
<1> SUFFICES ASSUME IInv, [Next]_vars PROVE IInv'
  OBVIOUS
<1>1. TypeOK'
  BY TypesStep
<1>2. CASE UNCHANGED vars
  <2>1. SchemaStays /\ UNCHANGED <<pc, applied, version, statement, made>>
    BY <1>2 DEF vars, local, SchemaStays
  <2>2. Passed' /\ MadeOnce' /\ ServesOnItsSchema' /\ Behind'
    BY <2>1, SchemaKept
       DEF SchemaStays, Passed, InTransaction, MadeOnce, ServesOnItsSchema, Behind, IInv, Row
  <2> QED
    BY <1>1, <2>1, <2>2, SchemaKept DEF IInv
<1>3. ASSUME NEW p \in Replicas, Boot(p) \/ Run(p) \/ CommitUnacknowledged(p) \/ Dies(p)
      PROVE  IInv'
  <2>1. CASE ExecFails(p) \/ Dies(p)
    <3>1. Exit(p) /\ faults' \in Nat
      BY <1>1, <2>1, MaxFaultsAssumption DEF ExecFails, Dies, TypeOK
    <3> QED
      BY <1>1, <3>1, OutsideStep
  <2> QED
    BY <1>1, <1>3, <2>1, OutsideStep, BeginStep, BlockStep, ExecStep, CommitStep DEF Run
<1> QED
  BY <1>2, <1>3 DEF Next

LEMMA Invariant == Spec => []IInv
BY InvariantInit, InvariantStep, PTL DEF Spec

-----------------------------------------------------------------------------
(***************************************************************************)
(* A replica's transaction is of one migration it was built with, and open *)
(* only while the replica is in it.                                        *)
(***************************************************************************)
THEOREM MigrationsTypes == Spec => []TypeOK
<1>1. IInv => TypeOK
  BY DEF IInv
<1> QED
  BY <1>1, Invariant, PTL

(***************************************************************************)
(* migrations.go:24: a migration is committed with its record, as a whole, *)
(* or has left nothing, however boots overlap, fail and are repeated.      *)
(***************************************************************************)
THEOREM Atomic == Spec => []AllOrNothing
<1>1. IInv => AllOrNothing
  BY DEF IInv
<1> QED
  BY <1>1, Invariant, PTL

(***************************************************************************)
(* migrations.go:3: the migrations in place are the first few, always.     *)
(***************************************************************************)
THEOREM Ordered == Spec => []InOrder
<1>1. IInv => InOrder
  BY DEF IInv
<1> QED
  BY <1>1, Invariant, PTL

(***************************************************************************)
(* migrations.go:3: no migration is committed twice, whichever replicas    *)
(* read schema_migrations before it was.                                   *)
(***************************************************************************)
THEOREM AppliedOnce == Spec => []OnceEach
<1>1. IInv => OnceEach
  BY DEF IInv, Counted, OnceEach
<1> QED
  BY <1>1, Invariant, PTL

(***************************************************************************)
(* db.go:35: a replica that serves has every migration it was built with.  *)
(***************************************************************************)
THEOREM Served == Spec => []ServesOnItsSchema
<1>1. IInv => ServesOnItsSchema
  BY DEF IInv
<1> QED
  BY <1>1, Invariant, PTL

(***************************************************************************)
(* No circle of boots can form.  The transactions that meet are all of one *)
(* migration; one that waits for the statement of another has passed what  *)
(* the other has made, and what is made twice is made by nobody.           *)
(***************************************************************************)
THEOREM NoCircleOfBoots == Spec => []NobodyWaitsForAWaiter
<1>1. IInv => NobodyWaitsForAWaiter
  <2> SUFFICES ASSUME IInv, NEW p \in Replicas, NEW q \in Replicas, p # q,
                      Target(p) \in made[q], pc[q] = "exec",
                      NEW r \in Replicas \ {q}, Target(q) \in made[r]
               PROVE  FALSE
    BY DEF NobodyWaitsForAWaiter, Locked
  <2> DEFINE v == version[p]
             i == statement[p]
  <2>1. InTransaction(q) /\ InTransaction(r)
    BY DEF InTransaction, IInv, TypeOK
  <2>2. /\ made[q] \subseteq {version[q]} \X (1 .. (statement[q] - 1))
        /\ made[r] \subseteq {version[r]} \X (1 .. (statement[r] - 1))
    BY <2>1 DEF InTransaction, IInv, TypeOK
  <2>3. version[q] = v /\ version[r] = v
    BY <2>2 DEF Target
  <2>4. i \in 1 .. (statement[q] - 1) /\ statement[q] \in 1 .. (statement[r] - 1)
    BY <2>2 DEF Target
  <2>5. i \in 1 .. (statement[r] - 1)
    BY <2>4 DEF IInv, TypeOK
  <2>6. <<v, i>> \in made[r] \cup schema
    BY <2>1, <2>3, <2>5 DEF Passed, IInv
  <2> QED
    BY <2>6 DEF Target, MadeOnce, IInv
<1> QED
  BY <1>1, Invariant, PTL

-----------------------------------------------------------------------------
(***************************************************************************)
(* The boots implement the abstract upgrades.  A commit is an upgrade by a *)
(* whole migration, since none of it was there and all of it has been      *)
(* passed; a death may end a service; every other step is invisible.       *)
(***************************************************************************)
Serving == {p \in Replicas : pc[p] = "serving"}

LEMMA WholeIsRecorded ==
    ASSUME IInv, NEW v \in Recorded
    PROVE  {v} \X (1 .. Size + 1) \subseteq schema
<1>1. v \in Versions /\ Objects(v) \subseteq schema /\ Row(v) \in schema
  BY DEF Recorded, AllOrNothing, IInv
<1>2. 1 .. Size + 1 = (1 .. Size) \cup {Size + 1}
  BY KnownAssumption
<1> QED
  BY <1>1, <1>2 DEF Objects, Row

LEMMA CommitUpgrades ==
    ASSUME IInv, NEW p \in Replicas, Commit(p) \/ CommitUnacknowledged(p)
    PROVE  Upgrades!Upgrade
<1> DEFINE v == version[p]
<1>1. /\ pc[p] = "commit" /\ schema' = schema \cup made[p]
      /\ \/ pc' = [pc EXCEPT ![p] = "loop"]
         \/ pc' = [pc EXCEPT ![p] = "down"]
  BY DEF Commit, CommitUnacknowledged, GoTo
<1>2. v \in 1 .. Known[p] /\ v \in Versions /\ Size \in Nat /\ InTransaction(p)
  BY <1>1, KnownAssumption, VersionFacts DEF InTransaction, IInv, TypeOK
<1>3. /\ statement[p] = Size + 2 /\ Row(v) \in made[p]
      /\ {v} \X (1 .. (statement[p] - 1)) \subseteq made[p] \cup schema
      /\ made[p] \subseteq {v} \X (1 .. (statement[p] - 1))
  BY <1>1, <1>2 DEF InTransaction, IInv, TypeOK, Passed
<1>4. statement[p] - 1 = Size + 1
  BY <1>2, <1>3
<1>5. Row(v) \notin schema /\ Objects(v) \cap schema = {}
  BY <1>2, <1>3 DEF MadeOnce, AllOrNothing, Recorded, IInv
<1>6. {v} \X (1 .. Size + 1) \cap schema = {}
  <2>1. 1 .. Size + 1 = (1 .. Size) \cup {Size + 1}
    BY <1>2
  <2> QED
    BY <1>5, <2>1 DEF Objects, Row
<1>7. schema' = schema \cup ({v} \X (1 .. Size + 1))
  BY <1>1, <1>3, <1>4
<1>8. ASSUME NEW w \in 1 .. (v - 1) PROVE {w} \X (1 .. Size + 1) \subseteq schema
  <2>1. w \in Recorded
    BY <1>1 DEF Behind, IInv
  <2> QED
    BY <2>1, WholeIsRecorded
<1>9. Serving' = Serving
  <2>1. pc \in [Replicas -> Steps]
    BY DEF IInv, TypeOK
  <2> QED
    BY <1>1, <2>1 DEF Serving
<1> QED
  BY <1>2, <1>6, <1>7, <1>8, <1>9
  DEF Upgrades!Upgrade, Upgrades!Whole, Upgrades!InPlace, Serving

LEMMA UpgradesStep == IInv /\ [Next]_vars => [Upgrades!Next]_<<schema, Serving>>
<1> SUFFICES ASSUME IInv, [Next]_vars PROVE [Upgrades!Next]_<<schema, Serving>>
  OBVIOUS
<1>0. pc \in [Replicas -> Steps]
  BY DEF IInv, TypeOK
<1>1. CASE UNCHANGED vars
  BY <1>1 DEF vars, local, Serving
<1>2. ASSUME NEW p \in Replicas, Commit(p) \/ CommitUnacknowledged(p) PROVE Upgrades!Next
  BY <1>2, CommitUpgrades DEF Upgrades!Next
<1>3. ASSUME NEW p \in Replicas, Serve(p) PROVE Upgrades!Next
  <2>1. pc[p] = "loop" /\ pc' = [pc EXCEPT ![p] = "serving"] /\ schema' = schema
    BY <1>3 DEF Serve, GoTo
  <2>2. 1 .. (version[p] - 1) \subseteq Recorded /\ version[p] .. Known[p] \subseteq Recorded
    BY <1>3, <2>1 DEF Serve, Behind, IInv
  <2>3. version[p] \in Nat \ {0} /\ Known[p] \in Nat
    BY KnownAssumption DEF IInv, TypeOK
  <2>4. \A v \in 1 .. Known[p] : v \in Recorded
    BY <2>2, <2>3
  <2>5. \A v \in 1 .. Known[p] : {v} \X (1 .. Size + 1) \subseteq schema
    BY <2>4, WholeIsRecorded
  <2>6. p \notin Serving /\ Serving' = Serving \cup {p}
    BY <1>0, <2>1 DEF Serving
  <2> QED
    BY <2>1, <2>5, <2>6
    DEF Upgrades!Next, Upgrades!Serve, Upgrades!Whole, Upgrades!InPlace, Serving
<1>4. ASSUME NEW p \in Replicas, Exit(p) PROVE [Upgrades!Next]_<<schema, Serving>>
  <2>1. pc' = [pc EXCEPT ![p] = "down"] /\ schema' = schema
    BY <1>4 DEF Exit, GoTo
  <2>2. CASE p \in Serving
    <3>1. Serving' = Serving \ {p}
      BY <1>0, <2>1 DEF Serving
    <3> QED
      BY <2>1, <2>2, <3>1 DEF Upgrades!Next, Upgrades!End, Serving
  <2>3. CASE p \notin Serving
    BY <1>0, <2>1, <2>3 DEF Serving
  <2> QED
    BY <2>2, <2>3
<1>5. ASSUME NEW p \in Replicas,
             Boot(p) \/ AppliedVersions(p) \/ BeginTransaction(p) \/ ExecBlocks(p) \/ Exec(p)
      PROVE  UNCHANGED <<schema, Serving>>
  <2>1. /\ schema' = schema
        /\ \/ pc' = pc
           \/ \E step \in Steps \ {"serving"} :
                 pc[p] # "serving" /\ pc' = [pc EXCEPT ![p] = step]
    BY <1>5 DEF Boot, AppliedVersions, BeginTransaction, ExecBlocks, Exec, GoTo, Steps
  <2> QED
    BY <1>0, <2>1 DEF Serving
<1> QED
  BY <1>1, <1>2, <1>3, <1>4, <1>5 DEF Next, Run, ExecFails, Dies

(***************************************************************************)
(* migrations.go:1-4 and :22-24: whatever overlaps, fails and is repeated, *)
(* the schema grows by whole migrations, in order, and is served complete. *)
(***************************************************************************)
THEOREM BootsImplementUpgrades == Spec => ImplementsUpgrades
<1>1. Init => Upgrades!Init
  BY DEF Init, Upgrades!Init
<1>2. IInv /\ [Next]_vars => [Upgrades!Next]_<<schema, {p \in Replicas : pc[p] = "serving"}>>
  BY UpgradesStep DEF Serving
<1> QED
  BY <1>1, <1>2, Invariant, PTL DEF Spec, ImplementsUpgrades, Upgrades!Spec
=============================================================================
