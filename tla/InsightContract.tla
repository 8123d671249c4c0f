-------------------------- MODULE InsightContract --------------------------
(***************************************************************************)
(* What POST /insights promises, without locks, transactions or model      *)
(* calls: a get-or-create register per dataset and scope.  A request is    *)
(* answered at most once, with the one insight on record at that moment;   *)
(* a record appears only if there is none, only for a dataset that is      *)
(* stored, and while its dataset is live nothing takes it away.            *)
(***************************************************************************)
CONSTANTS Request, Dataset, Scope, Target, NoInsight

VARIABLES
  life,     \* life[d] \in {"new", "live", "expired", "gone"}
  record,   \* pairs <<key, insight id>>
  answer    \* answer[r]: the insight id r was given, or NoInsight

contractVars == <<life, record, answer>>

\* The types of the register's variables.
ContractTypeOK ==
  /\ life \in [Dataset -> {"new", "live", "expired", "gone"}]
  /\ record \subseteq (Dataset \X Scope) \X Request
  /\ answer \in [Request -> Request \cup {NoInsight}]

ContractInit ==
  /\ life = [d \in Dataset |-> "new"]
  /\ record = {}
  /\ answer = [r \in Request |-> NoInsight]

Become(D, s) == life' = [d \in Dataset |-> IF d \in D THEN s ELSE life[d]]
Forget(D) == record' = {p \in record : p[1][1] \notin D}

\* A dataset id is used once: it is uploaded, may expire, and goes for good.
Open(d) ==
  /\ life[d] = "new"
  /\ Become({d}, "live")
  /\ UNCHANGED <<record, answer>>

Expire(D) ==
  /\ \A d \in D : life[d] = "live"
  /\ Become(D, "expired")
  /\ UNCHANGED <<record, answer>>

Retire(D) ==
  /\ \A d \in D : life[d] \in {"live", "expired"}
  /\ Become(D, "gone")
  /\ Forget(D)
  /\ UNCHANGED answer

\* Records of an expired dataset may be cleaned up before the dataset is.
Purge(D) ==
  /\ \A d \in D : life[d] = "expired"
  /\ Forget(D)
  /\ UNCHANGED <<life, answer>>

Create(r) ==
  /\ answer[r] = NoInsight
  /\ life[Target[r][1]] \in {"live", "expired"}
  /\ \A p \in record : p[1] # Target[r]
  /\ record' = record \cup {<<Target[r], r>>}
  /\ answer' = [answer EXCEPT ![r] = r]
  /\ UNCHANGED life

Reuse(r) ==
  /\ answer[r] = NoInsight
  /\ \E id \in Request :
       /\ <<Target[r], id>> \in record
       /\ answer' = [answer EXCEPT ![r] = id]
  /\ UNCHANGED <<life, record>>

ContractNext ==
  \/ \E r \in Request : Create(r) \/ Reuse(r)
  \/ \E d \in Dataset : Open(d)
  \/ \E D \in SUBSET Dataset : Expire(D) \/ Retire(D) \/ Purge(D)

ContractSpec == ContractInit /\ [][ContractNext]_contractVars
=============================================================================
