-------------------------- MODULE ProviderConfigProofs --------------------------
(***************************************************************************)
(* The ProviderConfig controller keeps its types, a ProviderConfig that a  *)
(* replica sees in use is not let go by it, and no wake-up is lost, for    *)
(* every number of replicas, Secrets and users and every bound on edits,   *)
(* failures and crashes.                                                   *)
(***************************************************************************)
EXTENDS ProviderConfig, FiniteSetTheorems, TLAPS

-----------------------------------------------------------------------------
(* The inductive invariant *)

\* A worker's informer goes on to show a use that it showed when the deletion was
\* asked for, as long as it is there; a worker that reconciles has read an object
\* that was there, and one that is about to remove the finalizer of the latest
\* version has seen, after the deletion was asked for, no use of it.
WorkerInv(w) ==
    /\ old[w] \subseteq seen[w] \cap usages
    /\ pc[w] # "idle" => copy[w].exists
    /\ pc[w] = "unfinalize" /\ w \in fresh => old[w] = {}

ConfigInv == TypeOK /\ (config.fin => config.exists) /\ \A w \in Workers : WorkerInv(w)

-----------------------------------------------------------------------------
(* Types *)

LEMMA UsersCount ==
    /\ 0 \in 0 .. Cardinality(Users)
    /\ \A S \in SUBSET Users : Cardinality(S) \in 0 .. Cardinality(Users)
<1>1. Cardinality(Users) \in Nat
  BY FS_CardinalityType, ConfigAssumption
<1>2. ASSUME NEW S \in SUBSET Users PROVE Cardinality(S) \in 0 .. Cardinality(Users)
  <2>1. IsFiniteSet(S) /\ Cardinality(S) <= Cardinality(Users)
    BY FS_Subset, ConfigAssumption
  <2>2. Cardinality(S) \in Nat
    BY <2>1, FS_CardinalityType
  <2> QED BY <1>1, <2>1, <2>2
<1> QED BY <1>1, <1>2

LEMMA NoConfigType == NoConfig \in Config
  BY UsersCount DEF NoConfig, Config, Conditions

\* Changing a field of the object gives one, and does not make it vanish.
LEMMA ConfigFields ==
    ASSUME NEW c \in Config
    PROVE  /\ [c EXCEPT !.fin = TRUE] \in Config /\ [c EXCEPT !.fin = TRUE].exists = c.exists
           /\ \A n \in 0 .. Cardinality(Users) :
                 /\ [c EXCEPT !.users = n] \in Config
                 /\ [c EXCEPT !.users = n].exists = c.exists
           /\ [c EXCEPT !.del = TRUE] \in Config /\ [c EXCEPT !.del = TRUE].exists = c.exists
           /\ \A r \in Secrets \cup {NoRef} :
                 /\ [c EXCEPT !.credentials = r] \in Config
                 /\ [c EXCEPT !.credentials = r].exists = c.exists
           /\ \A t : /\ SetCredentialCondition(c, t) \in Config
                     /\ SetCredentialCondition(c, t).exists = c.exists
<1>1. [c EXCEPT !.fin = TRUE] \in Config /\ [c EXCEPT !.fin = TRUE].exists = c.exists
  BY DEF Config
<1>2. ASSUME NEW n \in 0 .. Cardinality(Users)
      PROVE  [c EXCEPT !.users = n] \in Config /\ [c EXCEPT !.users = n].exists = c.exists
  BY DEF Config
<1>3. [c EXCEPT !.del = TRUE] \in Config /\ [c EXCEPT !.del = TRUE].exists = c.exists
  BY DEF Config
<1>4. ASSUME NEW r \in Secrets \cup {NoRef}
      PROVE  /\ [c EXCEPT !.credentials = r] \in Config
             /\ [c EXCEPT !.credentials = r].exists = c.exists
  BY DEF Config
<1>5. ASSUME NEW t PROVE /\ SetCredentialCondition(c, t) \in Config
                         /\ SetCredentialCondition(c, t).exists = c.exists
  <2> DEFINE r == IF t = "error" THEN "SecretNotFound"
                  ELSE IF ValidateToken(t) THEN "True" ELSE "InvalidCredentials"
  <2>1. r \in Conditions /\ SetCredentialCondition(c, t) = [c EXCEPT !.ready = r]
    BY DEF Conditions, SetCredentialCondition
  <2> HIDE DEF r
  <2> QED BY <2>1 DEF Config
<1> QED BY <1>1, <1>2, <1>3, <1>4, <1>5

LEMMA TokenType == WorldOK => \A r \in Secrets \cup {NoRef} : TokenOf(r) \in Tokens
  BY DEF WorldOK, TokenOf, Tokens, Contents

LEMMA FaultType ==
    ASSUME faults \in 0 .. MaxFaults, Fault \/ UNCHANGED faults
    PROVE  faults' \in 0 .. MaxFaults
  BY ConfigAssumption DEF Fault

-----------------------------------------------------------------------------
(* What the moves of a worker do *)

\* The types of what the moves below change, and of what they leave alone.
Own == /\ pc \in [Workers -> Phases] /\ copy \in [Workers -> Config]
       /\ users \in [Workers -> 0 .. Cardinality(Users)] /\ token \in [Workers -> Tokens]
       /\ again \in SUBSET Workers /\ deleted \in SUBSET Workers /\ queued \in SUBSET Workers

LEMMA EnterType ==
    ASSUME Own, NEW w \in Workers, NEW c \in Config, NEW p \in Phases, Enter(w, c, p)
    PROVE  /\ pc' \in [Workers -> Phases] /\ copy' \in [Workers -> Config]
           /\ pc'[w] = p /\ copy'[w] = c
           /\ \A v \in Workers \ {w} : pc'[v] = pc[v] /\ copy'[v] = copy[v]
  BY DEF Own, Enter

LEMMA ReturnType ==
    ASSUME Own, NEW w \in Workers, NEW r, Return(w, r)
    PROVE  /\ Own' /\ pc'[w] = "idle"
           /\ \A v \in Workers \ {w} : pc'[v] = pc[v] /\ copy'[v] = copy[v]
<1>1. Enter(w, NoConfig, "idle") /\ "idle" \in Phases
  BY DEF Return, Phases
<1>2. /\ pc' \in [Workers -> Phases] /\ copy' \in [Workers -> Config] /\ pc'[w] = "idle"
      /\ \A v \in Workers \ {w} : pc'[v] = pc[v] /\ copy'[v] = copy[v]
  BY <1>1, NoConfigType, EnterType
<1>3. /\ users' \in [Workers -> 0 .. Cardinality(Users)] /\ token' \in [Workers -> Tokens]
      /\ again' \in SUBSET Workers /\ deleted' \in SUBSET Workers /\ queued' \in SUBSET Workers
  BY UsersCount DEF Own, Return, Tokens
<1> QED BY <1>2, <1>3 DEF Own

LEMMA AfterStandardType ==
    ASSUME Own, NEW w \in Workers, NEW r, AfterStandard(w, r)
    PROVE  /\ Own' /\ (pc'[w] = "idle" \/ (pc'[w] = "get" /\ copy'[w] = copy[w]))
           /\ \A v \in Workers \ {w} : pc'[v] = pc[v] /\ copy'[v] = copy[v]
<1>1. CASE w \in deleted
  <2>1. Return(w, r)
    BY <1>1 DEF AfterStandard
  <2>2. /\ Own' /\ pc'[w] = "idle"
        /\ \A v \in Workers \ {w} : pc'[v] = pc[v] /\ copy'[v] = copy[v]
    BY <2>1, ReturnType
  <2> QED BY <2>2
<1>2. CASE w \notin deleted
  <2>1. copy[w] \in Config /\ "get" \in Phases /\ Enter(w, copy[w], "get")
    BY <1>2 DEF Own, Phases, AfterStandard
  <2>2. /\ pc' \in [Workers -> Phases] /\ copy' \in [Workers -> Config]
        /\ pc'[w] = "get" /\ copy'[w] = copy[w]
        /\ \A v \in Workers \ {w} : pc'[v] = pc[v] /\ copy'[v] = copy[v]
    BY <2>1, EnterType
  <2>3. again' \in SUBSET Workers
    BY <1>2 DEF Own, AfterStandard
  <2>4. Own'
    BY <1>2, <2>2, <2>3 DEF Own, AfterStandard
  <2> QED BY <2>2, <2>4
<1> QED BY <1>1, <1>2

LEMMA GetsFacts ==
    ASSUME TypeOK, NEW w \in Workers, NEW p \in Phases, Gets(w, p)
    PROVE  /\ pc' \in [Workers -> Phases] /\ copy' \in [Workers -> Config]
           /\ pc'[w] = p /\ copy'[w] = cache[w]
           /\ \A v \in Workers \ {w} : pc'[v] = pc[v] /\ copy'[v] = copy[v]
           /\ fresh' \in SUBSET Workers
           /\ \A v \in Workers \ {w} : v \in fresh' => v \in fresh
<1>1. cache[w] \in Config /\ fresh \in SUBSET Workers /\ Own
  BY DEF TypeOK, WorldOK, WorkerOK, Own
<1> QED BY <1>1, EnterType DEF Gets

LEMMA WritesFacts ==
    ASSUME TypeOK, NEW w \in Workers, NEW c \in Config, Writes(w, c)
    PROVE  /\ config' \in Config /\ current' \in SUBSET Workers /\ fresh' \in SUBSET Workers
           /\ w \in fresh /\ config' \in {config, c} /\ faults' \in 0 .. MaxFaults
           /\ \A v \in Workers \ {w} : v \in fresh' => v \in fresh
<1>1. CASE c = config
  BY <1>1 DEF Writes, TypeOK, WorldOK, WorkerOK
<1>2. CASE c # config
  BY <1>2 DEF Writes, Store, TypeOK, WorldOK, WorkerOK
<1> QED BY <1>1, <1>2

LEMMA WriteFailsFacts ==
    ASSUME TypeOK, NEW w \in Workers, WriteFails(w)
    PROVE  faults' \in 0 .. MaxFaults /\ UNCHANGED <<config, current, fresh>>
  BY FaultType DEF WriteFails, TypeOK, WorldOK

-----------------------------------------------------------------------------
(* What a step of a worker keeps *)

\* w has moved as it may: nobody else moved, and if the object has gone, w took
\* its finalizer off and saw no use of it.
Moved(w) ==
    /\ Own' /\ config' \in Config /\ current' \in SUBSET Workers /\ fresh' \in SUBSET Workers
    /\ unread' \in BOOLEAN /\ faults' \in 0 .. MaxFaults
    /\ \A v \in Workers \ {w} : /\ pc'[v] = pc[v] /\ copy'[v] = copy[v]
                                /\ v \in fresh' => v \in fresh
    /\ WorkerInv(w)'
    /\ config' = config \/ config'.exists \/ (config' = NoConfig /\ pc[w] = "unfinalize" /\ old[w] = {})

LEMMA BeginMoves ==
    ASSUME ConfigInv, NEW w \in Workers, Begin(w)
    PROVE  Moved(w)
<1>0. TypeOK /\ Own /\ WorkerInv(w) /\ pc[w] = "idle" /\ UNCHANGED <<config, current, unread, faults, worldVars>>
      /\ "standard" \in Phases /\ queued' \in SUBSET Workers /\ UNCHANGED <<again, users, token>>
  BY DEF ConfigInv, TypeOK, WorkerOK, Own, Begin, Reads, Unseen, Phases
<1>1. CASE cache[w].exists
  <2>1. Gets(w, "standard") /\ deleted' \in SUBSET Workers
    BY <1>0, <1>1 DEF Begin, Own
  <2>2. WorkerInv(w)'
    BY <1>0, <1>1, <2>1, GetsFacts DEF WorkerInv, worldVars
  <2>3. Own'
    BY <1>0, <2>1, GetsFacts DEF Own
  <2> QED BY <1>0, <2>1, <2>2, <2>3, GetsFacts DEF Moved, TypeOK, WorldOK
<1>2. CASE ~cache[w].exists
  <2>1. UNCHANGED <<pc, copy, fresh, deleted>>
    BY <1>2 DEF Begin
  <2> QED BY <1>0, <2>1 DEF Moved, TypeOK, WorldOK, WorkerOK, Own, WorkerInv, worldVars
<1> QED BY <1>1, <1>2

LEMMA StandardMoves ==
    ASSUME ConfigInv, NEW w \in Workers, Standard(w)
    PROVE  Moved(w)
<1>0. TypeOK /\ Own /\ WorkerInv(w) /\ copy[w].exists /\ UNCHANGED <<config, current, unread>>
      /\ old[w] \subseteq seen[w] \cap usages /\ UNCHANGED <<usages, seen, old>> /\ seen[w] \in SUBSET Users
  BY DEF ConfigInv, TypeOK, WorldOK, WorkerOK, Own, Standard, Reads, Unseen, worldVars, WorkerInv
<1>1. ASSUME NEW r, AfterStandard(w, r), UNCHANGED fresh, Fault \/ UNCHANGED faults PROVE Moved(w)
  <2>1. WorkerInv(w)'
    BY <1>0, <1>1, AfterStandardType DEF WorkerInv
  <2> QED BY <1>0, <1>1, <2>1, AfterStandardType, FaultType DEF Moved, TypeOK, WorldOK, WorkerOK
<1>2. CASE /\ cache[w].exists /\ users' = [users EXCEPT ![w] = Cardinality(seen[w])]
           /\ UNCHANGED <<queued, again, deleted, token, faults>>
           /\ Gets(w, IF ~cache[w].del THEN "finalizer" ELSE IF seen[w] = {} THEN "unfinalize"
                      ELSE "terminating")
  <2> DEFINE p == IF ~cache[w].del THEN "finalizer" ELSE IF seen[w] = {} THEN "unfinalize"
                  ELSE "terminating"
  <2>1. Gets(w, p) /\ p \in Phases /\ (p = "unfinalize" => old[w] = {})
    BY <1>0, <1>2 DEF Phases
  <2>2. users' \in [Workers -> 0 .. Cardinality(Users)]
    BY <1>0, <1>2, UsersCount DEF Own
  <2> HIDE DEF p
  <2>3. WorkerInv(w)'
    BY <1>0, <1>2, <2>1, GetsFacts DEF WorkerInv
  <2>4. Own'
    BY <1>0, <1>2, <2>1, <2>2, GetsFacts DEF Own
  <2> QED BY <1>0, <1>2, <2>1, <2>3, <2>4, GetsFacts DEF Moved, TypeOK, WorldOK
<1> QED BY <1>1, <1>2 DEF Standard

\* A write by w that leaves it where Enter, AfterStandard or Return say.
LEMMA WriteMoves ==
    ASSUME ConfigInv, NEW w \in Workers, NEW c \in Config, Writes(w, c), UNCHANGED unread, Unseen,
           c.exists \/ (c = NoConfig /\ pc[w] = "unfinalize" /\ old[w] = {}),
           Own', pc'[w] # "unfinalize", pc'[w] # "idle" => copy'[w].exists,
           \A v \in Workers \ {w} : pc'[v] = pc[v] /\ copy'[v] = copy[v]
    PROVE  Moved(w)
<1>1. TypeOK /\ unread' \in BOOLEAN
  BY DEF ConfigInv, TypeOK, WorldOK
<1>2. WorkerInv(w)'
  BY DEF ConfigInv, WorkerInv, Unseen, worldVars
<1> QED BY <1>1, <1>2, WritesFacts DEF Moved

LEMMA FailMoves ==
    ASSUME ConfigInv, NEW w \in Workers, WriteFails(w), UNCHANGED unread, Unseen,
           Own', pc'[w] # "unfinalize", pc'[w] # "idle" => copy'[w].exists,
           \A v \in Workers \ {w} : pc'[v] = pc[v] /\ copy'[v] = copy[v]
    PROVE  Moved(w)
<1>1. TypeOK /\ config \in Config /\ current \in SUBSET Workers /\ fresh \in SUBSET Workers
      /\ unread' \in BOOLEAN
  BY DEF ConfigInv, TypeOK, WorldOK, WorkerOK
<1>2. WorkerInv(w)'
  BY DEF ConfigInv, WorkerInv, Unseen, worldVars
<1> QED BY <1>1, <1>2, WriteFailsFacts DEF Moved

LEMMA WritingMoves ==
    ASSUME ConfigInv, NEW w \in Workers,
           \/ AddFinalizer(w) \/ Count(w) \/ Terminating(w) \/ RemoveFinalizer(w) \/ UpdateStatus(w)
    PROVE  Moved(w)
<1>0. /\ TypeOK /\ Own /\ copy[w] \in Config /\ copy[w].exists /\ WorkerInv(w)
      /\ UNCHANGED unread /\ Unseen /\ users[w] \in 0 .. Cardinality(Users)
  BY DEF ConfigInv, TypeOK, WorkerOK, Own, WorkerInv, AddFinalizer, Count, Terminating,
         RemoveFinalizer, UpdateStatus
<1>1. ASSUME NEW r, AfterStandard(w, r) \/ Return(w, r)
      PROVE  /\ Own' /\ pc'[w] # "unfinalize" /\ (pc'[w] # "idle" => copy'[w].exists)
             /\ \A v \in Workers \ {w} : pc'[v] = pc[v] /\ copy'[v] = copy[v]
  BY <1>0, <1>1, AfterStandardType, ReturnType
<1>2. WriteFails(w) /\ (\E r : AfterStandard(w, r) \/ Return(w, r)) => Moved(w)
  BY <1>0, <1>1, FailMoves
<1>3. ASSUME NEW c \in Config, Writes(w, c), c.exists \/ (c = NoConfig /\ pc[w] = "unfinalize" /\ old[w] = {}),
             \E r : AfterStandard(w, r) \/ Return(w, r)
      PROVE  Moved(w)
  BY <1>0, <1>1, <1>3, WriteMoves
<1>4. CASE AddFinalizer(w)
  <2> DEFINE c == [copy[w] EXCEPT !.fin = TRUE]
  <2>1. c \in Config /\ c.exists
    BY <1>0, ConfigFields
  <2>2. CASE Writes(w, c) /\ Enter(w, c, "count") /\ UNCHANGED <<queued, ownVars>>
    <3> HIDE DEF c
    <3>1. /\ pc' \in [Workers -> Phases] /\ copy' \in [Workers -> Config]
          /\ pc'[w] = "count" /\ copy'[w] = c
          /\ \A v \in Workers \ {w} : pc'[v] = pc[v] /\ copy'[v] = copy[v]
      BY <1>0, <2>1, <2>2, EnterType DEF Phases
    <3>2. Own'
      BY <1>0, <2>2, <3>1 DEF Own, ownVars
    <3> QED BY <1>0, <2>1, <2>2, <3>1, <3>2, WriteMoves
  <2> QED BY <1>2, <1>4, <2>2 DEF AddFinalizer
<1>5. CASE Count(w) \/ Terminating(w)
  <2> DEFINE c == [copy[w] EXCEPT !.users = users[w]]
  <2>1. c \in Config /\ c.exists
    BY <1>0, ConfigFields
  <2>2. \/ Writes(w, c) /\ \E r : AfterStandard(w, r)
        \/ WriteFails(w) /\ \E r : Return(w, r)
    BY <1>5 DEF Count, Terminating
  <2> HIDE DEF c
  <2> QED BY <1>2, <1>3, <2>1, <2>2
<1>6. CASE RemoveFinalizer(w)
  <2>1. NoConfig \in Config /\ pc[w] = "unfinalize" /\ (Writes(w, NoConfig) => old[w] = {})
    BY <1>0, <1>6, NoConfigType DEF WorkerInv, RemoveFinalizer, Writes
  <2> QED BY <1>2, <1>3, <1>6, <2>1 DEF RemoveFinalizer
<1>7. CASE UpdateStatus(w)
  <2> DEFINE c == SetCredentialCondition(copy[w], token[w])
  <2>1. c \in Config /\ c.exists
    BY <1>0, ConfigFields
  <2>2. \/ Writes(w, c) /\ \E r : Return(w, r)
        \/ WriteFails(w) /\ \E r : Return(w, r)
    BY <1>7 DEF UpdateStatus
  <2> HIDE DEF c
  <2> QED BY <1>2, <1>3, <2>1, <2>2
<1> QED BY <1>4, <1>5, <1>6, <1>7

LEMMA CredentialMoves ==
    ASSUME ConfigInv, NEW w \in Workers, GetAgain(w) \/ ExtractToken(w)
    PROVE  Moved(w)
<1>0. /\ TypeOK /\ WorldOK /\ Own /\ copy[w] \in Config /\ WorkerInv(w) /\ copy[w].exists
      /\ UNCHANGED <<config, current>> /\ config \in Config /\ current \in SUBSET Workers
      /\ fresh \in SUBSET Workers /\ faults \in 0 .. MaxFaults /\ UNCHANGED <<usages, seen, old>>
  BY DEF ConfigInv, TypeOK, WorldOK, WorkerOK, Own, WorkerInv, GetAgain, ExtractToken, Reads,
         Unseen, worldVars
<1>1. CASE GetAgain(w) /\ cache[w].exists
  <2>1. Gets(w, "extract") /\ UNCHANGED <<queued, ownVars>> /\ "extract" \in Phases
    BY <1>1 DEF GetAgain, Phases
  <2>2. Own' /\ WorkerInv(w)'
    BY <1>0, <1>1, <2>1, GetsFacts DEF Own, ownVars, WorkerInv
  <2> QED BY <1>0, <1>1, <2>1, <2>2, GetsFacts DEF Moved, GetAgain, WorldOK
<1>2. CASE GetAgain(w) /\ ~cache[w].exists
  <2>1. Return(w, FALSE) /\ UNCHANGED fresh
    BY <1>2 DEF GetAgain
  <2> QED BY <1>0, <1>2, <2>1, ReturnType DEF Moved, GetAgain, WorldOK, WorkerInv
<1>3. CASE ExtractToken(w)
  <2>1. /\ pc' \in [Workers -> Phases] /\ copy' \in [Workers -> Config]
        /\ pc'[w] = "status" /\ copy'[w] = copy[w]
        /\ \A v \in Workers \ {w} : pc'[v] = pc[v] /\ copy'[v] = copy[v]
    BY <1>0, <1>3, EnterType DEF ExtractToken, Phases
  <2>2. TokenOf(copy[w].credentials) \in Tokens /\ "error" \in Tokens
    BY <1>0, TokenType DEF Config, Tokens
  <2>3. /\ token' \in [Workers -> Tokens] /\ unread' \in BOOLEAN /\ faults' \in 0 .. MaxFaults
        /\ UNCHANGED <<fresh, queued, again, deleted, users>>
    BY <1>0, <1>3, <2>2, FaultType DEF ExtractToken, Own
  <2>4. Own'
    BY <1>0, <2>1, <2>3 DEF Own
  <2> QED BY <1>0, <2>1, <2>3, <2>4 DEF Moved, WorkerInv
<1> QED BY <1>1, <1>2, <1>3

LEMMA ReconcileMoves ==
    ASSUME ConfigInv, NEW w \in Workers, Reconcile(w)
    PROVE  Moved(w) /\ Unseen
<1>1. Moved(w)
  BY BeginMoves, StandardMoves, WritingMoves, CredentialMoves DEF Reconcile
<1>2. Unseen
  BY DEF Reconcile, Begin, Standard, AddFinalizer, Count, Terminating, RemoveFinalizer,
         GetAgain, ExtractToken, UpdateStatus
<1> QED BY <1>1, <1>2

\* The object may be let go.
LetGo == \E w \in Workers : pc[w] = "unfinalize" /\ old[w] = {}

LEMMA ReconcileKeeps ==
    ASSUME ConfigInv, NEW w \in Workers, Reconcile(w)
    PROVE  ConfigInv' /\ (config.fin /\ ~config'.exists => LetGo)
<1>0. Moved(w) /\ TypeOK /\ UNCHANGED <<worldVars, cache, edits, crashes>>
  BY ReconcileMoves DEF ConfigInv, Unseen
<1>1. TypeOK'
  <2>1. WorkerOK'
    BY <1>0 DEF Moved, Own, WorkerOK
  <2>2. WorldOK'
    BY <1>0 DEF Moved, TypeOK, WorldOK, worldVars
  <2> QED BY <2>1, <2>2 DEF TypeOK
<1>2. config'.fin => config'.exists
  BY <1>0 DEF Moved, ConfigInv, NoConfig
<1>3. ASSUME NEW v \in Workers PROVE WorkerInv(v)'
  <2>1. CASE v = w
    BY <1>0, <2>1 DEF Moved
  <2>2. CASE v # w
    <3>1. pc'[v] = pc[v] /\ copy'[v] = copy[v] /\ (v \in fresh' => v \in fresh)
      BY <1>0, <2>2 DEF Moved
    <3>2. UNCHANGED <<usages, seen, old>> /\ WorkerInv(v)
      BY <1>0 DEF ConfigInv, worldVars
    <3> QED BY <3>1, <3>2 DEF WorkerInv
  <2> QED BY <2>1, <2>2
<1>4. config.fin /\ ~config'.exists => LetGo
  BY <1>0 DEF Moved, ConfigInv, LetGo
<1> QED BY <1>1, <1>2, <1>3, <1>4 DEF ConfigInv

-----------------------------------------------------------------------------
(* What the environment keeps *)

LEMMA InformerKeeps ==
    ASSUME ConfigInv, NEW w \in Workers, Informer(w) \/ Resync(w)
    PROVE  ConfigInv' /\ UNCHANGED config
<1>1. UNCHANGED <<config, worldVars, unread, pc, copy, fresh, ownVars, edits, faults, crashes>>
      /\ TypeOK
  BY DEF ConfigInv, Informer, Resync
<1>2. cache' \in [Workers -> Config] /\ current' \in SUBSET Workers /\ queued' \in SUBSET Workers
  BY <1>1 DEF Informer, Resync, TypeOK, WorldOK, WorkerOK
<1>3. TypeOK'
  BY <1>1, <1>2 DEF TypeOK, WorldOK, WorkerOK, worldVars, ownVars
<1>4. \A v \in Workers : WorkerInv(v)'
  BY <1>1 DEF ConfigInv, WorkerInv, worldVars
<1> QED BY <1>1, <1>3, <1>4 DEF ConfigInv

LEMMA UsageInformerKeeps ==
    ASSUME ConfigInv, NEW w \in Workers, NEW u \in Users, UsageInformer(w, u)
    PROVE  ConfigInv' /\ UNCHANGED config
<1>1. /\ UNCHANGED <<config, secret, usages, old, unread, cache, current, pc, copy, fresh, ownVars,
                     edits, faults, crashes>>
      /\ TypeOK
      /\ seen' = [seen EXCEPT ![w] = IF u \in usages THEN @ \cup {u} ELSE @ \ {u}]
  BY DEF ConfigInv, UsageInformer
<1>2. seen' \in [Workers -> SUBSET Users] /\ queued' \in SUBSET Workers
  BY <1>1 DEF UsageInformer, TypeOK, WorldOK, WorkerOK
<1>3. TypeOK'
  BY <1>1, <1>2 DEF TypeOK, WorldOK, WorkerOK, ownVars
<1>4. ASSUME NEW v \in Workers PROVE WorkerInv(v)'
  <2>1. old[v] \subseteq seen'[v] \cap usages
    BY <1>1 DEF ConfigInv, WorkerInv, TypeOK, WorldOK
  <2> QED BY <1>1, <2>1 DEF ConfigInv, WorkerInv
<1> QED BY <1>1, <1>3, <1>4 DEF ConfigInv

LEMMA CrashKeeps ==
    ASSUME ConfigInv, NEW w \in Workers, Crash(w)
    PROVE  ConfigInv' /\ UNCHANGED config
<1>1. TypeOK /\ Own /\ Return(w, TRUE) /\ fresh' = fresh \ {w}
      /\ UNCHANGED <<config, worldVars, unread, cache, current, edits, faults>>
  BY DEF ConfigInv, TypeOK, WorkerOK, Own, Crash
<1>2. Own' /\ pc'[w] = "idle"
      /\ \A v \in Workers \ {w} : pc'[v] = pc[v] /\ copy'[v] = copy[v]
  BY <1>1, ReturnType
<1>3. crashes' \in 0 .. MaxCrashes
  BY <1>1, ConfigAssumption DEF Crash, TypeOK, WorldOK
<1>4. TypeOK'
  BY <1>1, <1>2, <1>3 DEF TypeOK, WorldOK, WorkerOK, Own, worldVars
<1>5. ASSUME NEW v \in Workers PROVE WorkerInv(v)'
  <2>1. CASE v = w
    BY <1>1, <1>2, <2>1 DEF ConfigInv, WorkerInv, worldVars
  <2>2. CASE v # w
    BY <1>1, <1>2, <2>2 DEF ConfigInv, WorkerInv, worldVars
  <2> QED BY <2>1, <2>2
<1> QED BY <1>1, <1>4, <1>5 DEF ConfigInv

LEMMA EditType ==
    ASSUME TypeOK, Edit, NotReconciling
    PROVE  edits' \in 0 .. MaxEdits /\ faults' \in 0 .. MaxFaults /\ crashes' \in 0 .. MaxCrashes
  BY ConfigAssumption DEF TypeOK, WorldOK, Edit, NotReconciling

\* A user stores c: no working copy is of the latest version any more.
LEMMA StoredByUser ==
    ASSUME ConfigInv, NEW c \in Config, c.fin => c.exists, StoreByUser(c), Edit, NotReconciling,
           UNCHANGED <<secret, usages, seen, unread, queued>>,
           old' \in {old, [v \in Workers |-> seen[v] \cap usages]}
    PROVE  ConfigInv'
<1>1. TypeOK /\ config' = c /\ current' = {} /\ fresh' = {}
      /\ UNCHANGED <<cache, pc, copy, again, deleted, users, token>>
  BY DEF ConfigInv, StoreByUser, Store, NotReconciling, ownVars
<1>2. WorkerOK'
  BY <1>1 DEF TypeOK, WorkerOK
<1>3. /\ old' \in [Workers -> SUBSET Users]
      /\ \A v \in Workers : old'[v] \subseteq seen[v] \cap usages
  BY <1>1 DEF ConfigInv, WorkerInv, TypeOK, WorldOK
<1>4. WorldOK'
  BY <1>1, <1>3, EditType DEF TypeOK, WorldOK
<1>5. \A v \in Workers : WorkerInv(v)'
  BY <1>1, <1>3 DEF ConfigInv, WorkerInv
<1> QED BY <1>1, <1>2, <1>4, <1>5 DEF ConfigInv, TypeOK

LEMMA UsersKeep ==
    ASSUME ConfigInv, KubernetesUsers
    PROVE  ConfigInv' /\ (config.fin => config'.exists)
<1>0. TypeOK /\ config \in Config /\ (config.fin => config.exists)
  BY DEF ConfigInv, TypeOK, WorldOK
<1>1. CASE UserDeletes
  <2> DEFINE c == IF config.fin THEN [config EXCEPT !.del = TRUE] ELSE NoConfig
  <2>1. c \in Config /\ (c.fin => c.exists) /\ (config.fin => c.exists)
    BY <1>0, ConfigFields, NoConfigType DEF NoConfig
  <2>2. /\ StoreByUser(c) /\ config' = c /\ Edit /\ NotReconciling
        /\ UNCHANGED <<secret, usages, seen, unread, queued>>
        /\ old' \in {old, [v \in Workers |-> seen[v] \cap usages]}
    BY <1>1 DEF UserDeletes, StoreByUser, Store
  <2> HIDE DEF c
  <2> QED BY <2>1, <2>2, StoredByUser
<1>2. ASSUME NEW r \in Secrets \cup {NoRef}, UserApplies(r)
      PROVE  ConfigInv' /\ (config.fin => config'.exists)
  <2>0. /\ Edit /\ NotReconciling /\ UNCHANGED <<secret, usages, seen, unread, queued>>
        /\ old' \in {old, [v \in Workers |-> seen[v] \cap usages]}
    BY <1>2 DEF UserApplies, worldVars
  <2>1. ASSUME NEW c \in Config, c.exists, StoreByUser(c)
        PROVE  ConfigInv' /\ (config.fin => config'.exists)
    BY <2>0, <2>1, StoredByUser DEF StoreByUser, Store
  <2>2. /\ [NoConfig EXCEPT !.exists = TRUE, !.credentials = r] \in Config
        /\ [NoConfig EXCEPT !.exists = TRUE, !.credentials = r].exists
    BY NoConfigType DEF NoConfig, Config
  <2>3. [config EXCEPT !.credentials = r] \in Config
        /\ [config EXCEPT !.credentials = r].exists = config.exists
    BY <1>0, ConfigFields
  <2>4. CASE ~config.exists
             /\ StoreByUser([NoConfig EXCEPT !.exists = TRUE, !.credentials = r])
    BY <2>1, <2>2, <2>4
  <2>5. CASE config.exists /\ StoreByUser([config EXCEPT !.credentials = r])
    BY <2>1, <2>3, <2>5
  <2> QED BY <1>2, <2>4, <2>5 DEF UserApplies
<1>3. ASSUME NEW s \in Secrets, NEW v \in Contents, SecretChanges(s, v)
      PROVE  ConfigInv' /\ UNCHANGED config
  <2>1. secret' \in [Secrets -> Contents] /\ unread' \in BOOLEAN
        /\ UNCHANGED <<config, usages, seen, old, current, queued, fresh, cache, pc, copy, again, deleted,
                       users, token>>
    BY <1>0, <1>3 DEF SecretChanges, NotReconciling, ownVars, TypeOK, WorldOK
  <2>2. TypeOK'
    BY <1>0, <1>3, <2>1, EditType DEF SecretChanges, TypeOK, WorldOK, WorkerOK
  <2>3. \A q \in Workers : WorkerInv(q)'
    BY <2>1 DEF ConfigInv, WorkerInv
  <2> QED BY <1>0, <2>1, <2>2, <2>3 DEF ConfigInv
<1>4. ASSUME NEW u \in Users, UsageChanges(u)
      PROVE  ConfigInv' /\ UNCHANGED config
  <2>1. /\ usages' \in SUBSET Users /\ old' \in [Workers -> SUBSET Users]
        /\ \A q \in Workers : old'[q] \subseteq old[q]
        /\ \A q \in Workers : old[q] \subseteq usages => old'[q] \subseteq usages'
        /\ UNCHANGED <<config, secret, seen, unread, current, queued, fresh, cache, pc, copy, again,
                       deleted, users, token>>
    BY <1>0, <1>4 DEF UsageChanges, NotReconciling, ownVars, TypeOK, WorldOK
  <2>2. TypeOK'
    BY <1>0, <1>4, <2>1, EditType DEF UsageChanges, TypeOK, WorldOK, WorkerOK
  <2>3. \A q \in Workers : WorkerInv(q)'
    BY <2>1 DEF ConfigInv, WorkerInv
  <2> QED BY <1>0, <2>1, <2>2, <2>3 DEF ConfigInv
<1> QED BY <1>0, <1>1, <1>2, <1>3, <1>4 DEF KubernetesUsers

-----------------------------------------------------------------------------
(* The theorems *)

LEMMA ConfigInit == Init => ConfigInv
<1> SUFFICES ASSUME Init PROVE ConfigInv
  OBVIOUS
<1>1. WorkerOK
  BY NoConfigType, UsersCount DEF Init, WorkerOK, Phases, Tokens
<1>2. WorldOK
  <2>1. config \in Config /\ cache \in [Workers -> Config] /\ current \in SUBSET Workers
    BY NoConfigType DEF Init
  <2>2. /\ secret \in [Secrets -> Contents] /\ usages \in SUBSET Users
        /\ seen \in [Workers -> SUBSET Users] /\ old \in [Workers -> SUBSET Users]
        /\ unread \in BOOLEAN
    BY DEF Init
  <2>3. edits \in 0 .. MaxEdits /\ faults \in 0 .. MaxFaults /\ crashes \in 0 .. MaxCrashes
    BY ConfigAssumption DEF Init
  <2> QED BY <2>1, <2>2, <2>3 DEF WorldOK
<1> QED BY <1>1, <1>2 DEF Init, ConfigInv, TypeOK, WorkerInv, NoConfig

LEMMA ConfigStep ==
    ASSUME ConfigInv, [Next]_vars
    PROVE  ConfigInv' /\ [config.fin /\ ~config'.exists => LetGo]_vars
<1>1. CASE UNCHANGED vars
  BY <1>1 DEF vars, worldVars, ownVars, ConfigInv, TypeOK, WorkerOK, WorldOK, WorkerInv
<1>2. CASE KubernetesUsers
  BY <1>2, UsersKeep
<1>3. ASSUME NEW w \in Workers, Reconcile(w) \/ Informer(w) \/ Resync(w) \/ Crash(w)
      PROVE  ConfigInv' /\ (config.fin /\ ~config'.exists => LetGo)
  BY <1>3, ReconcileKeeps, InformerKeeps, CrashKeeps DEF ConfigInv
<1>4. ASSUME NEW w \in Workers, NEW u \in Users, UsageInformer(w, u)
      PROVE ConfigInv' /\ UNCHANGED config
  BY <1>4, UsageInformerKeeps
<1> QED BY <1>1, <1>2, <1>3, <1>4 DEF Next, ConfigInv

\* The inductive invariant of the controller.
THEOREM ConfigInvariant == Spec => []ConfigInv
  BY ConfigInit, ConfigStep, PTL DEF Spec

\* Every variable of the ProviderConfig controller keeps its type (setup.go:91-134).
THEOREM ConfigTypeCorrect == Spec => []TypeOK
<1>1. ConfigInv => TypeOK
  BY DEF ConfigInv
<1> QED BY <1>1, ConfigInvariant, PTL

\* Whatever fails, whoever crashes, however many replicas run and however their
\* informers of the ProviderConfig and of its usages lag: no reconcile lets a
\* ProviderConfig go of which its replica's informer has shown, since the deletion
\* was asked for, a use that is still there (setup.go:105-116).
THEOREM ConfigInUseIsKept == Spec => InUseIsKept
<1>1. ConfigInv /\ [Next]_vars => [config.fin /\ ~config'.exists => LetGo]_vars
  BY ConfigStep
<1> QED BY <1>1, ConfigInvariant, PTL DEF Spec, InUseIsKept, LetGo

-----------------------------------------------------------------------------
(* No wake-up is lost: what a step leaves alone *)

\* Nothing of v has changed.
Still(v) ==
    /\ pc'[v] = pc[v] /\ copy'[v] = copy[v] /\ users'[v] = users[v] /\ token'[v] = token[v]
    /\ v \in again' <=> v \in again
    /\ v \in deleted' <=> v \in deleted
    /\ v \in queued' <=> v \in queued

\* w has moved alone; a write that changed the object has made every copy old.
Alone(w) ==
    /\ UNCHANGED <<worldVars, cache>> /\ \A v \in Workers \ {w} : Still(v)
    /\ \/ config' # config /\ current' = {}
       \/ /\ UNCHANGED <<config, current>>
          /\ \A v \in Workers \ {w} : v \in fresh' <=> v \in fresh

LEMMA EnterAlone ==
    ASSUME TypeOK, NEW w \in Workers, NEW c, NEW p, Enter(w, c, p),
           NEW v \in Workers \ {w}
    PROVE  pc'[v] = pc[v] /\ copy'[v] = copy[v]
  BY DEF TypeOK, WorkerOK, Enter

LEMMA ReturnAlone ==
    ASSUME TypeOK, NEW w \in Workers, NEW r, Return(w, r)
    PROVE  /\ \A v \in Workers \ {w} : Still(v)
           /\ pc'[w] = "idle" /\ w \notin again' \cup deleted'
           /\ (w \in queued \/ r) => w \in queued'
<1>1. ASSUME NEW v \in Workers \ {w} PROVE Still(v)
  BY EnterAlone DEF TypeOK, WorkerOK, Return, Still
<1>2. pc'[w] = "idle" /\ w \notin again' \cup deleted' /\ ((w \in queued \/ r) => w \in queued')
  BY DEF TypeOK, WorkerOK, Return, Enter
<1> QED BY <1>1, <1>2

LEMMA AfterStandardAlone ==
    ASSUME TypeOK, NEW w \in Workers, NEW r \in BOOLEAN, AfterStandard(w, r)
    PROVE  /\ \A v \in Workers \ {w} : Still(v)
           /\ w \in queued => w \in queued'
           /\ w \in deleted => /\ pc'[w] = "idle" /\ w \notin again' \cup deleted'
                               /\ r => w \in queued'
           /\ w \notin deleted => /\ pc'[w] = "get" /\ copy'[w] = copy[w] /\ w \notin deleted'
                                  /\ r => w \in again'
<1>1. CASE w \in deleted
  BY <1>1, ReturnAlone DEF AfterStandard
<1>2. CASE w \notin deleted
  <2>1. /\ Enter(w, copy[w], "get") /\ again' = IF r THEN again \cup {w} ELSE again
        /\ UNCHANGED <<queued, deleted, users, token>>
    BY <1>2 DEF AfterStandard
  <2>2. pc'[w] = "get" /\ copy'[w] = copy[w]
    BY <2>1 DEF Enter, TypeOK, WorkerOK
  <2>3. \A v \in Workers \ {w} : Still(v)
    BY <2>1, EnterAlone DEF Still
  <2> QED BY <1>2, <2>1, <2>2, <2>3
<1> QED BY <1>1, <1>2

LEMMA GetsAlone ==
    ASSUME TypeOK, NEW w \in Workers, NEW p, Gets(w, p)
    PROVE  /\ \A v \in Workers \ {w} : pc'[v] = pc[v] /\ copy'[v] = copy[v]
                                       /\ (v \in fresh' <=> v \in fresh)
           /\ pc'[w] = p /\ copy'[w] = cache[w] /\ (w \in current => w \in fresh')
<1>1. Enter(w, cache[w], p) /\ fresh' = IF w \in current THEN fresh \cup {w} ELSE fresh \ {w}
  BY DEF Gets
<1>2. pc'[w] = p /\ copy'[w] = cache[w]
  BY <1>1 DEF Enter, TypeOK, WorkerOK
<1> QED BY <1>1, <1>2, EnterAlone

LEMMA WritesAlone ==
    ASSUME NEW w \in Workers, NEW c, Writes(w, c)
    PROVE  \/ config' # config /\ current' = {}
           \/ c = config /\ UNCHANGED <<config, current, fresh>>
  BY DEF Writes, Store

-----------------------------------------------------------------------------
(* No wake-up is lost: the parts of the invariant *)

LEMMA StillKeeps ==
    ASSUME NEW v \in Workers, SteadyInv(v), Still(v), UNCHANGED <<config, current>>, seen'[v] = seen[v],
           cache'[v] = cache[v], v \in fresh' <=> v \in fresh
    PROVE  SteadyInv(v)'
  BY DEF SteadyInv, Still, Steady

LEMMA StillJudges ==
    ASSUME NEW v \in Workers, Still(v), UNCHANGED <<config, current, secret>>
    PROVE  Judges(v)' <=> Judges(v)
  BY DEF Judges, Still, Steady, TokenOf

\* Everybody is going to be woken.
LEMMA AllWoken ==
    ASSUME RestInv, \A v \in Workers : ~Steady(v)',
           \A v \in Workers : v \in current' => cache'[v] = config',
           \A v \in Workers : pc'[v] = "idle" => v \notin again' \cup deleted'
    PROVE  RestInv'
<1>1. \A v \in Workers : SteadyInv(v)'
  BY DEF SteadyInv
<1>2. ReadyInv'
  BY ConfigAssumption DEF ReadyInv, Judges
<1> QED BY <1>1, <1>2 DEF RestInv

\* What w has to show of a step that leaves the object alone.
StepKeeps(w) ==
    /\ pc'[w] = "idle" => w \notin again' \cup deleted'
    /\ UNCHANGED config =>
          /\ Steady(w)' => SteadyInv(w)'
          /\ ( /\ config.exists
               /\ ~config.del
               /\ Judges(w) \/ unread
               /\ ~Fits(config.ready, TokenOf(config.credentials)) /\ ~unread' ) => Judges(w)'

LEMMA StepRests ==
    ASSUME RestInv, NEW w \in Workers, Alone(w), StepKeeps(w)
    PROVE  RestInv'
<1>1. CASE config' # config /\ current' = {}
  <2>1. \A v \in Workers : pc'[v] = "idle" => v \notin again' \cup deleted'
    BY DEF RestInv, SteadyInv, StepKeeps, Alone, Still
  <2> QED BY <1>1, <2>1, AllWoken DEF Steady
<1>2. CASE /\ UNCHANGED <<config, current>>
           /\ \A v \in Workers \ {w} : v \in fresh' <=> v \in fresh
  <2>1. UNCHANGED <<cache, secret, seen>> /\ \A v \in Workers \ {w} : Still(v)
    BY DEF Alone, worldVars
  <2>2. ASSUME NEW v \in Workers \ {w} PROVE SteadyInv(v)' /\ (Judges(v)' <=> Judges(v))
    BY <1>2, <2>1, StillKeeps, StillJudges DEF RestInv
  <2>3. SteadyInv(w)'
    <3>1. CASE Steady(w)'
      BY <1>2, <3>1 DEF StepKeeps
    <3>2. CASE ~Steady(w)'
      BY <1>2, <2>1, <3>2 DEF StepKeeps, SteadyInv, RestInv
    <3> QED BY <3>1, <3>2
  <2>4. ReadyInv'
    <3> SUFFICES ASSUME config.exists, ~config.del, ~unread',
                         ~Fits(config.ready, TokenOf(config.credentials))
                 PROVE  \E v \in Workers : Judges(v)'
      BY <1>2, <2>1 DEF ReadyInv, TokenOf
    <3>1. CASE unread
      BY <1>2, <3>1 DEF StepKeeps
    <3>2. CASE ~unread
      <4>1. PICK v \in Workers : Judges(v)
        BY <3>2 DEF RestInv, ReadyInv
      <4> QED BY <1>2, <2>2, <4>1 DEF StepKeeps
    <3> QED BY <3>1, <3>2
  <2> QED BY <2>2, <2>3, <2>4 DEF RestInv
<1> QED BY <1>1, <1>2 DEF Alone

-----------------------------------------------------------------------------
(* No wake-up is lost: the steps *)

LEMMA BeginRests ==
    ASSUME TypeOK, RestInv, NEW w \in Workers, Begin(w)
    PROVE  Alone(w) /\ StepKeeps(w)
<1>0. /\ SteadyInv(w) /\ pc[w] = "idle" /\ queued' = queued \ {w}
      /\ UNCHANGED <<config, current, worldVars, cache, unread, again, users, token>>
  BY DEF RestInv, Begin, Reads, Unseen
<1>1. CASE cache[w].exists
  <2>1. Gets(w, "standard") /\ deleted' = IF cache[w].del THEN deleted \cup {w} ELSE deleted
    BY <1>1 DEF Begin
  <2>2. /\ \A v \in Workers \ {w} : Still(v) /\ (v \in fresh' <=> v \in fresh)
        /\ pc'[w] = "standard" /\ copy'[w] = cache[w] /\ (w \in current => w \in fresh')
    BY <1>0, <2>1, GetsAlone DEF Still
  <2>3. Alone(w)
    BY <1>0, <2>2 DEF Alone
  <2>4. Steady(w)' => SteadyInv(w)'
    BY <1>0, <2>1, <2>2 DEF Steady, SteadyInv, worldVars
  <2> QED BY <1>0, <2>2, <2>3, <2>4 DEF StepKeeps, Judges
<1>2. CASE ~cache[w].exists
  <2>1. UNCHANGED <<pc, copy, fresh, deleted>>
    BY <1>2 DEF Begin
  <2>2. Alone(w)
    BY <1>0, <2>1 DEF Alone, Still
  <2>3. Steady(w)' => SteadyInv(w)'
    BY <1>0, <1>2, <2>1 DEF Steady, SteadyInv, worldVars
  <2>4. config.exists => Judges(w)'
    BY <1>0, <1>2 DEF Steady, SteadyInv, Judges
  <2> QED BY <1>0, <2>1, <2>2, <2>3, <2>4 DEF StepKeeps, SteadyInv
<1> QED BY <1>1, <1>2

\* The standard reconciler has returned r, and w's copy was not yet the object
\* that it would judge: what AfterStandard keeps.
LEMMA AfterStandardRests ==
    ASSUME TypeOK, RestInv, NEW w \in Workers, NEW r \in BOOLEAN, AfterStandard(w, r),
           pc[w] \in {"standard", "finalizer", "count", "terminating", "unfinalize"},
           UNCHANGED <<unread, cache, seen>>,
           UNCHANGED config => UNCHANGED <<current, fresh>>,
           Steady(w) /\ UNCHANGED config =>
              \/ r \/ ~config.exists
              \/ config.users = Cardinality(seen[w]) /\ (config.del => seen[w] # {})
    PROVE  StepKeeps(w)
<1>0. /\ SteadyInv(w) /\ (w \in queued => w \in queued')
      /\ w \in deleted => /\ pc'[w] = "idle" /\ w \notin again' \cup deleted'
                          /\ r => w \in queued'
      /\ w \notin deleted => /\ pc'[w] = "get" /\ copy'[w] = copy[w] /\ w \notin deleted'
                             /\ r => w \in again'
  BY AfterStandardAlone DEF RestInv
<1>1. ASSUME UNCHANGED config, Steady(w)' PROVE SteadyInv(w)'
  <2>1. Steady(w) /\ UNCHANGED <<current, fresh, cache, seen>>
    BY <1>0, <1>1 DEF Steady
  <2>2. copy[w] = config /\ w \in fresh /\ (w \in deleted <=> config.del)
    BY <1>0, <2>1 DEF SteadyInv
  <2>3. CASE w \in deleted
    BY <1>0, <1>1, <2>1, <2>2, <2>3 DEF SteadyInv, Steady
  <2>4. CASE w \notin deleted
    BY <1>0, <1>1, <2>1, <2>2, <2>4 DEF SteadyInv, Steady
  <2> QED BY <2>3, <2>4
<1>2. ASSUME UNCHANGED config, config.exists, ~config.del PROVE Judges(w)'
  <2>1. CASE w \in deleted
    BY <1>0, <1>2, <2>1 DEF Judges, Steady, SteadyInv
  <2>2. CASE w \notin deleted
    BY <1>0, <2>2 DEF Judges
  <2> QED BY <2>1, <2>2
<1> QED BY <1>0, <1>1, <1>2 DEF StepKeeps

\* Reconcile has returned r.
LEMMA ReturnRests ==
    ASSUME TypeOK, RestInv, NEW w \in Workers, NEW r \in BOOLEAN, Return(w, r),
           UNCHANGED <<unread, cache, seen>>,
           UNCHANGED config => UNCHANGED current,
           Steady(w) /\ UNCHANGED config =>
              \/ r \/ ~config.exists
              \/ /\ config.users = Cardinality(seen[w]) /\ (config.del => seen[w] # {})
                 /\ Judges(w) => Fits(config.ready, TokenOf(config.credentials))
    PROVE  StepKeeps(w)
<1>0. /\ SteadyInv(w) /\ pc'[w] = "idle" /\ w \notin again' \cup deleted'
      /\ (w \in queued \/ r) => w \in queued'
  BY ReturnAlone DEF RestInv
<1>1. ASSUME UNCHANGED config, Steady(w)' PROVE SteadyInv(w)'
  BY <1>0, <1>1 DEF SteadyInv, Steady
<1>2. ASSUME UNCHANGED config, config.exists, Judges(w),
             ~Fits(config.ready, TokenOf(config.credentials))
      PROVE  Judges(w)'
  BY <1>0, <1>2 DEF Judges, Steady
<1> QED BY <1>0, <1>1, <1>2 DEF StepKeeps

LEMMA StandardRests ==
    ASSUME TypeOK, RestInv, NEW w \in Workers, Standard(w)
    PROVE  Alone(w) /\ StepKeeps(w)
<1>0. /\ SteadyInv(w) /\ pc[w] = "standard"
      /\ UNCHANGED <<config, current, worldVars, cache, unread>> /\ UNCHANGED seen
  BY DEF RestInv, Standard, Reads, Unseen, worldVars
<1>1. ASSUME NEW r \in BOOLEAN, AfterStandard(w, r), UNCHANGED fresh, r \/ ~cache[w].exists
      PROVE  Alone(w) /\ StepKeeps(w)
  <2>1. Alone(w)
    BY <1>0, <1>1, AfterStandardAlone DEF Alone
  <2>2. Steady(w) => r \/ ~config.exists
    BY <1>0, <1>1 DEF Steady, SteadyInv
  <2> QED BY <1>0, <1>1, <2>1, <2>2, AfterStandardRests
<1>2. CASE /\ cache[w].exists /\ users' = [users EXCEPT ![w] = Cardinality(seen[w])]
           /\ UNCHANGED <<queued, again, deleted, token, faults>>
           /\ Gets(w, IF ~cache[w].del THEN "finalizer" ELSE IF seen[w] = {} THEN "unfinalize"
                      ELSE "terminating")
  <2> DEFINE p == IF ~cache[w].del THEN "finalizer" ELSE IF seen[w] = {} THEN "unfinalize"
                  ELSE "terminating"
  <2>1. Gets(w, p) /\ p \in {"finalizer", "unfinalize", "terminating"}
        /\ (p = "finalizer" <=> ~cache[w].del) /\ (p = "terminating" => seen[w] # {})
    BY <1>2
  <2> HIDE DEF p
  <2>2. users'[w] = Cardinality(seen[w]) /\ \A v \in Workers \ {w} : users'[v] = users[v]
    BY <1>2 DEF TypeOK, WorkerOK
  <2>3. /\ \A v \in Workers \ {w} : Still(v) /\ (v \in fresh' <=> v \in fresh)
        /\ pc'[w] = p /\ copy'[w] = cache[w] /\ (w \in current => w \in fresh')
    BY <1>2, <2>1, <2>2, GetsAlone DEF Still
  <2>4. Alone(w)
    BY <1>0, <2>3 DEF Alone
  <2>5. Steady(w)' => SteadyInv(w)'
    BY <1>0, <1>2, <2>1, <2>2, <2>3 DEF Steady, SteadyInv
  <2> QED BY <2>1, <2>3, <2>4, <2>5 DEF StepKeeps, Judges
<1> QED BY <1>1, <1>2 DEF Standard

\* A write by w, and what follows it.
LEMMA WriteAlone ==
    ASSUME TypeOK, NEW w \in Workers, Unseen,
           (\E c : Writes(w, c)) \/ WriteFails(w), \A v \in Workers \ {w} : Still(v)
    PROVE  Alone(w) /\ (UNCHANGED config => UNCHANGED <<current, fresh>>)
  BY WritesAlone DEF Alone, Unseen, WriteFails

LEMMA AddFinalizerRests ==
    ASSUME TypeOK, RestInv, NEW w \in Workers, AddFinalizer(w)
    PROVE  Alone(w) /\ StepKeeps(w)
<1>0. SteadyInv(w) /\ pc[w] = "finalizer" /\ Unseen /\ UNCHANGED <<unread, cache, seen>>
  BY DEF RestInv, AddFinalizer, Unseen, worldVars
<1>1. CASE WriteFails(w) /\ AfterStandard(w, TRUE)
  <2>1. Alone(w) /\ (UNCHANGED config => UNCHANGED <<current, fresh>>)
    BY <1>0, <1>1, AfterStandardAlone, WriteAlone
  <2> QED BY <1>0, <1>1, <2>1, AfterStandardRests
<1>2. CASE LET c == [copy[w] EXCEPT !.fin = TRUE]
           IN  Writes(w, c) /\ Enter(w, c, "count") /\ UNCHANGED <<queued, ownVars>>
  <2>1. PICK c : Writes(w, c) /\ Enter(w, c, "count") /\ UNCHANGED <<queued, ownVars>>
    BY <1>2
  <2>2. \A v \in Workers \ {w} : Still(v)
    BY <2>1, EnterAlone DEF Still, ownVars
  <2>3. Alone(w) /\ (UNCHANGED config => UNCHANGED <<current, fresh>>)
    BY <1>0, <2>1, <2>2, WriteAlone
  <2>4. pc'[w] = "count" /\ copy'[w] = c
    BY <2>1 DEF Enter, TypeOK, WorkerOK
  <2>5. UNCHANGED config /\ Steady(w)' => SteadyInv(w)'
    <3> SUFFICES ASSUME UNCHANGED config, Steady(w)' PROVE SteadyInv(w)'
      OBVIOUS
    <3>1. UNCHANGED <<current, fresh, queued, ownVars>> /\ w \in fresh
      BY <2>1, <2>3 DEF Writes
    <3>2. c = config
      BY <2>1, WritesAlone DEF Steady
    <3> QED BY <1>0, <2>4, <3>1, <3>2 DEF Steady, SteadyInv, ownVars
  <2> QED BY <2>3, <2>4, <2>5 DEF StepKeeps, Judges
<1> QED BY <1>1, <1>2 DEF AddFinalizer

LEMMA StandardWritesRest ==
    ASSUME TypeOK, RestInv, NEW w \in Workers, Count(w) \/ Terminating(w) \/ RemoveFinalizer(w)
    PROVE  Alone(w) /\ StepKeeps(w)
<1>0. /\ SteadyInv(w) /\ Unseen /\ UNCHANGED <<unread, cache, seen>> /\ copy[w] \in Config
      /\ pc[w] \in {"count", "terminating", "unfinalize"}
      /\ users[w] \in 0 .. Cardinality(Users)
  BY DEF RestInv, Count, Terminating, RemoveFinalizer, Unseen, worldVars, TypeOK, WorkerOK
<1>1. ASSUME WriteFails(w), Return(w, TRUE) PROVE Alone(w) /\ StepKeeps(w)
  <2>1. Alone(w) /\ (UNCHANGED config => UNCHANGED <<current, fresh>>)
    BY <1>0, <1>1, ReturnAlone, WriteAlone
  <2> QED BY <1>0, <1>1, <2>1, ReturnRests
<1>2. ASSUME NEW r \in BOOLEAN, AfterStandard(w, r), WriteFails(w) \/ \E c : Writes(w, c),
             Steady(w) /\ UNCHANGED config =>
                 \/ r \/ ~config.exists
                 \/ config.users = Cardinality(seen[w]) /\ (config.del => seen[w] # {})
      PROVE  Alone(w) /\ StepKeeps(w)
  <2>1. Alone(w) /\ (UNCHANGED config => UNCHANGED <<current, fresh>>)
    BY <1>0, <1>2, AfterStandardAlone, WriteAlone
  <2> QED BY <1>0, <1>2, <2>1, AfterStandardRests
<1>3. CASE Count(w) \/ Terminating(w)
  <2> DEFINE c == [copy[w] EXCEPT !.users = users[w]]
  <2>1. c.users = users[w]
    BY <1>0 DEF Config
  <2>2. Writes(w, c) /\ Steady(w) /\ UNCHANGED config
            => config.users = Cardinality(seen[w]) /\ (config.del => seen[w] # {})
    BY <1>0, <1>3, <2>1, WritesAlone DEF Count, Terminating, SteadyInv, Steady
  <2> HIDE DEF c
  <2>3. Writes(w, c) /\ AfterStandard(w, FALSE) => Alone(w) /\ StepKeeps(w)
    BY <1>2, <2>2
  <2>4. (Writes(w, c) /\ AfterStandard(w, FALSE)) \/ (WriteFails(w) /\ Return(w, TRUE))
    BY <1>3 DEF Count, Terminating, c
  <2> QED BY <1>1, <2>3, <2>4
<1>4. CASE RemoveFinalizer(w)
  <2>1. Writes(w, NoConfig) /\ UNCHANGED config => ~config.exists
    BY WritesAlone DEF NoConfig
  <2>2. \/ Writes(w, NoConfig) /\ AfterStandard(w, FALSE)
        \/ WriteFails(w) /\ AfterStandard(w, TRUE)
    BY <1>4 DEF RemoveFinalizer
  <2> QED BY <1>2, <2>1, <2>2
<1> QED BY <1>3, <1>4

LEMMA CredentialsRest ==
    ASSUME TypeOK, RestInv, NEW w \in Workers, GetAgain(w) \/ ExtractToken(w)
    PROVE  Alone(w) /\ StepKeeps(w)
<1>0. /\ SteadyInv(w) /\ UNCHANGED <<config, current, worldVars, cache>> /\ UNCHANGED seen
      /\ UNCHANGED secret
  BY DEF RestInv, GetAgain, ExtractToken, Reads, Unseen, worldVars
<1>1. CASE GetAgain(w) /\ cache[w].exists
  <2>1. Gets(w, "extract") /\ UNCHANGED <<queued, ownVars>> /\ pc[w] = "get" /\ UNCHANGED unread
    BY <1>1 DEF GetAgain
  <2>2. /\ \A v \in Workers \ {w} : Still(v) /\ (v \in fresh' <=> v \in fresh)
        /\ pc'[w] = "extract" /\ copy'[w] = cache[w] /\ (w \in current => w \in fresh')
    BY <2>1, GetsAlone DEF Still, ownVars
  <2>3. Alone(w)
    BY <1>0, <2>2 DEF Alone
  <2>4. Steady(w)' => SteadyInv(w)'
    BY <1>0, <2>1, <2>2 DEF Steady, SteadyInv, ownVars
  <2> QED BY <2>2, <2>3, <2>4 DEF StepKeeps, Judges
<1>2. CASE GetAgain(w) /\ ~cache[w].exists
  <2>1. Return(w, FALSE) /\ UNCHANGED <<fresh, unread>>
    BY <1>2 DEF GetAgain
  <2>2. Alone(w)
    BY <1>0, <2>1, ReturnAlone DEF Alone
  <2>3. Steady(w) => ~config.exists
    BY <1>0, <1>2 DEF Steady, SteadyInv
  <2> QED BY <1>0, <2>1, <2>2, <2>3, ReturnRests
<1>3. CASE ExtractToken(w)
  <2>1. /\ Enter(w, copy[w], "status") /\ UNCHANGED <<fresh, queued, again, deleted, users>>
        /\ pc[w] = "extract"
        /\ \/ token' = [token EXCEPT ![w] = TokenOf(copy[w].credentials)]
           \/ token' = [token EXCEPT ![w] = "error"] /\ unread' = TRUE
    BY <1>3 DEF ExtractToken
  <2>2. pc'[w] = "status" /\ copy'[w] = copy[w]
    BY <2>1 DEF Enter, TypeOK, WorkerOK
  <2>3. \A v \in Workers \ {w} : Still(v)
    BY <2>1, EnterAlone DEF Still, TypeOK, WorkerOK
  <2>4. Alone(w)
    BY <1>0, <2>1, <2>3 DEF Alone
  <2>5. Steady(w)' => SteadyInv(w)'
    BY <1>0, <2>1, <2>2 DEF Steady, SteadyInv
  <2>6. ~unread' => Judges(w)'
    <3>1. CASE ~Steady(w)
      BY <1>0, <2>1, <3>1 DEF Judges, Steady
    <3>2. CASE Steady(w) /\ token' = [token EXCEPT ![w] = TokenOf(copy[w].credentials)]
      <4>1. token'[w] = TokenOf(config.credentials)
        BY <1>0, <2>1, <3>2 DEF SteadyInv, TypeOK, WorkerOK
      <4>2. TokenOf(config.credentials)' = TokenOf(config.credentials)
        BY <1>0 DEF TokenOf
      <4> QED BY <1>0, <2>2, <4>1, <4>2 DEF Judges
    <3> QED BY <2>1, <3>1, <3>2
  <2> QED BY <2>2, <2>4, <2>5, <2>6 DEF StepKeeps
<1> QED BY <1>1, <1>2, <1>3

\* The condition that is set fits what has been read.
LEMMA ConditionFits ==
    ASSUME NEW c \in Config, NEW t \in Tokens
    PROVE  /\ Fits(SetCredentialCondition(c, t).ready, t)
           /\ SetCredentialCondition(c, t).credentials = c.credentials
           /\ SetCredentialCondition(c, t).del = c.del
           /\ SetCredentialCondition(c, t).users = c.users
  BY DEF Fits, SetCredentialCondition, ValidateToken, Config, Tokens

LEMMA UpdateStatusRests ==
    ASSUME TypeOK, RestInv, NEW w \in Workers, UpdateStatus(w)
    PROVE  Alone(w) /\ StepKeeps(w)
<1>0. /\ SteadyInv(w) /\ pc[w] = "status" /\ Unseen /\ UNCHANGED <<unread, cache, seen>>
      /\ copy[w] \in Config /\ token[w] \in Tokens
  BY DEF RestInv, UpdateStatus, Unseen, worldVars, TypeOK, WorkerOK
<1> DEFINE c == SetCredentialCondition(copy[w], token[w])
<1>1. CASE WriteFails(w) /\ Return(w, TRUE)
  <2>1. Alone(w) /\ (UNCHANGED config => UNCHANGED <<current, fresh>>)
    BY <1>0, <1>1, ReturnAlone, WriteAlone
  <2> QED BY <1>0, <1>1, <2>1, ReturnRests
<1>2. CASE Writes(w, c) /\ Return(w, w \in again)
  <2>1. Steady(w) /\ UNCHANGED config => c = config
    BY <1>2, WritesAlone DEF Steady
  <2>2. Fits(c.ready, token[w])
    BY <1>0, ConditionFits
  <2> HIDE DEF c
  <2>3. /\ Writes(w, c) /\ Alone(w) /\ (UNCHANGED config => UNCHANGED <<current, fresh>>)
    BY <1>0, <1>2, ReturnAlone, WriteAlone
  <2>4. CASE w \in again
    <3>1. Return(w, TRUE)
      BY <1>2, <2>4 DEF Return
    <3> QED BY <1>0, <2>3, <3>1, ReturnRests
  <2>5. CASE w \notin again
    <3>1. Return(w, FALSE)
      BY <1>2, <2>5 DEF Return
    <3>2. Steady(w) /\ Judges(w) => token[w] = TokenOf(config.credentials)
      BY <1>0, <2>5 DEF Judges
    <3>3. Steady(w) /\ UNCHANGED config =>
             \/ ~config.exists
             \/ /\ config.users = Cardinality(seen[w]) /\ (config.del => seen[w] # {})
                /\ Judges(w) => Fits(config.ready, TokenOf(config.credentials))
      BY <1>0, <2>1, <2>2, <2>5, <3>2 DEF SteadyInv
    <3> QED BY <1>0, <2>3, <3>1, <3>3, ReturnRests
  <2> QED BY <2>4, <2>5
<1> QED BY <1>1, <1>2 DEF UpdateStatus

-----------------------------------------------------------------------------
(* No wake-up is lost: the theorem *)

LEMMA UsersRest ==
    ASSUME TypeOK, RestInv, KubernetesUsers
    PROVE  RestInv'
<1>0. \A v \in Workers : SteadyInv(v)
  BY DEF RestInv
<1>1. UNCHANGED <<cache, pc, copy, again, deleted, users, token>>
  BY DEF KubernetesUsers, UserDeletes, UserApplies, SecretChanges, UsageChanges,
         NotReconciling, ownVars
<1>2. ASSUME NEW c, StoreByUser(c) PROVE RestInv'
  BY <1>0, <1>1, <1>2, AllWoken DEF StoreByUser, Store, Steady, SteadyInv
<1>3. ASSUME NEW u \in Users, UsageChanges(u) PROVE RestInv'
  <2>1. UNCHANGED <<config, secret, seen, unread, current, queued, fresh>>
    BY <1>3 DEF UsageChanges
  <2> QED BY <1>0, <1>1, <2>1 DEF RestInv, ReadyInv, SteadyInv, Steady, Judges, TokenOf
<1>4. ASSUME NEW s \in Secrets, NEW x, SecretChanges(s, x) PROVE RestInv'
  <2>1. UNCHANGED <<config, seen, current, queued, fresh>> /\ unread' = TRUE
    BY <1>4 DEF SecretChanges
  <2> QED BY <1>0, <1>1, <2>1 DEF RestInv, ReadyInv, SteadyInv, Steady
<1> QED BY <1>2, <1>3, <1>4 DEF KubernetesUsers, UserDeletes, UserApplies

LEMMA EnvironmentRests ==
    ASSUME TypeOK, RestInv, NEW w \in Workers,
           \/ Informer(w) \/ Resync(w) \/ Crash(w)
           \/ \E u \in Users : UsageInformer(w, u)
    PROVE  RestInv'
<1>0. \A v \in Workers : SteadyInv(v)
  BY DEF RestInv
<1>1. /\ w \in queued' /\ UNCHANGED <<config, secret, unread>>
      /\ w \in current' => cache'[w] = config'
      /\ pc'[w] = "idle" => w \notin again' \cup deleted'
      /\ \A v \in Workers \ {w} : /\ Still(v) /\ (v \in fresh' <=> v \in fresh)
                                  /\ cache'[v] = cache[v] /\ (v \in current' <=> v \in current)
                                  /\ seen'[v] = seen[v]
  <2>1. CASE Informer(w)
    BY <1>0, <2>1 DEF Informer, worldVars, Still, ownVars, SteadyInv, TypeOK, WorldOK
  <2>2. CASE Resync(w)
    BY <1>0, <2>2 DEF Resync, worldVars, Still, ownVars, SteadyInv
  <2>3. CASE Crash(w)
    <3>1. Return(w, TRUE) /\ fresh' = fresh \ {w}
          /\ UNCHANGED <<config, worldVars, unread, cache, current>>
      BY <2>3 DEF Crash
    <3> QED BY <1>0, <3>1, ReturnAlone DEF SteadyInv, worldVars
  <2>4. CASE \E u \in Users : UsageInformer(w, u)
    <3>0. PICK u \in Users : UsageInformer(w, u)
      BY <2>4
    <3>1. /\ w \in queued' /\ queued' = queued \cup {w}
          /\ UNCHANGED <<config, secret, unread, cache, current, pc, copy, fresh, ownVars>>
      BY <3>0 DEF UsageInformer
    <3>2. \A v \in Workers \ {w} : Still(v)
      BY <3>1 DEF Still, ownVars
    <3>3. \A v \in Workers \ {w} : seen'[v] = seen[v]
      BY <3>0 DEF UsageInformer, TypeOK, WorldOK
    <3> QED BY <1>0, <3>1, <3>2, <3>3 DEF SteadyInv, ownVars
  <2> QED BY <2>1, <2>2, <2>3, <2>4
<1>2. ASSUME NEW v \in Workers PROVE SteadyInv(v)'
  <2>1. CASE v = w
    BY <1>1, <2>1 DEF SteadyInv, Steady
  <2>2. CASE v # w
    BY <1>0, <1>1, <2>2 DEF SteadyInv, Steady, Still
  <2> QED BY <2>1, <2>2
<1>3. Judges(w)'
  BY <1>1 DEF Judges, Steady
<1> QED BY <1>2, <1>3 DEF RestInv, ReadyInv

\* The inductive invariant: whoever is not going to be woken works on the stored
\* object, and until Ready fits the credentials somebody is going to judge them.
THEOREM RestInvariant == Spec => []RestInv
<1>1. Init => RestInv
  BY DEF Init, RestInv, SteadyInv, ReadyInv, NoConfig
<1>2. ConfigInv /\ RestInv /\ [Next]_vars => RestInv'
  <2> SUFFICES ASSUME ConfigInv, RestInv, [Next]_vars PROVE RestInv'
    OBVIOUS
  <2>0. TypeOK
    BY DEF ConfigInv
  <2>1. CASE UNCHANGED vars
    BY <2>1 DEF vars, worldVars, ownVars, RestInv, SteadyInv, ReadyInv, Judges, Steady, TokenOf
  <2>2. ASSUME NEW w \in Workers, Reconcile(w) PROVE RestInv'
    <3>1. Alone(w) /\ StepKeeps(w)
      BY <2>0, <2>2, BeginRests, StandardRests, AddFinalizerRests, StandardWritesRest,
         CredentialsRest, UpdateStatusRests DEF Reconcile
    <3> QED BY <3>1, StepRests
  <2> QED BY <2>0, <2>1, <2>2, UsersRest, EnvironmentRests DEF Next
<1> QED BY <1>1, <1>2, ConfigInvariant, PTL DEF Spec

\* With any number of replicas, and whatever failed, conflicted or crashed: when
\* all workers rest, the stored ProviderConfig is right (setup.go:91-134).
THEOREM RestIsRight == Spec => []RestsRight
<1>1. RestInv => RestsRight
  <2> SUFFICES ASSUME RestInv, AtRest, config.exists
               PROVE  /\ config.del => usages # {}
                      /\ config.del \/ unread \/ Fits(config.ready, TokenOf(config.credentials))
                      /\ config.users = Cardinality(usages)
    BY DEF RestsRight
  <2>1. \A w \in Workers : Steady(w) /\ pc[w] = "idle" /\ SteadyInv(w) /\ seen[w] = usages
    BY DEF AtRest, Steady, RestInv
  <2>2. \A w \in Workers : /\ ~Judges(w) /\ config.users = Cardinality(usages)
                           /\ config.del => usages # {}
    BY <2>1 DEF SteadyInv, Judges
  <2> QED BY <2>2, ConfigAssumption DEF RestInv, ReadyInv
<1> QED BY <1>1, RestInvariant, PTL
=============================================================================
