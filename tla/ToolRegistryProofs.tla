------------------------- MODULE ToolRegistryProofs --------------------------
(****************************************************************************)
(* Decisions about tools are atomic, for every catalog and every number of  *)
(* sessions: ToolRegistry implements AvailabilityLog, and the registry is   *)
(* what its audit history says.                                             *)
(*                                                                          *)
(* The inductive invariant says of each session that it holds the lock of   *)
(* every tool its loop has passed, so what it has read there still stands   *)
(* when it commits.                                                         *)
(****************************************************************************)
EXTENDS ToolGateway, TLAPS, NaturalsInduction, WellFoundedInduction

Wanted(c) ==
    \/ c.op = "decide" /\ (c.tools \in Lists \/ <<c.tools, c.value>> \in Presets)
    \/ c.op = "seed" /\ c.tools = Reviewed /\ c.value = TRUE

(* The session has a reason to change t.                                    *)
Due(s, t) == call[s].op = "seed" \/ enabled[t] # call[s].value

SessionInv(s) ==
    /\ pc[s] = "idle" => todo[s] = {} /\ changed[s] = {} /\ logged[s] = {}
    /\ pc[s] # "idle" => Wanted(call[s])
    /\ pc[s] = "commit" => todo[s] = {}
    /\ pc[s] = "write" => call[s].op = "decide"
    /\ \A t \in call[s].tools \ todo[s] :
          pc[s] # "idle" => lock[t] = s /\ (t \in changed[s] <=> Due(s, t))
    /\ \A t \in changed[s] \cap todo[s] : At(s, t) /\ pc[s] = "log" /\ lock[t] = s /\ Due(s, t)
    /\ \A t \in todo[s] : At(s, t) =>
          /\ pc[s] = "write" => lock[t] = s /\ Due(s, t)
          /\ pc[s] = "log" => t \in changed[s]
    /\ logged[s] = changed[s] \ todo[s]

OneSeed ==
    \A s \in Session : call[s].op = "seed" =>
        ~seeded /\ \A other \in Session : call[other].op = "seed" => other = s

RegistryInv == TypeOK /\ AuditAgrees /\ OneSeed /\ \A s \in Session : SessionInv(s)

-----------------------------------------------------------------------------
(* What a step of s leaves to the other sessions.                           *)
Frame(s) ==
    \A r \in Session \ {s} :
        /\ pc'[r] = pc[r] /\ call'[r] = call[r] /\ todo'[r] = todo[r]
        /\ changed'[r] = changed[r] /\ logged'[r] = logged[r]
        /\ \A t \in Tool : lock[t] = r => lock'[t] = r /\ enabled'[t] = enabled[t]

(* A step of s preserves what the invariant says of the others.             *)
LEMMA OthersKeep ==
    ASSUME RegistryInv, NEW s \in Session, Frame(s)
    PROVE  \A r \in Session \ {s} : SessionInv(r)'
<1> SUFFICES ASSUME NEW r \in Session \ {s} PROVE SessionInv(r)'
  OBVIOUS
<1>1. /\ SessionInv(r)
      /\ call[r].tools \subseteq Tool /\ todo[r] \subseteq Tool /\ changed[r] \subseteq Tool
  BY DEF RegistryInv, TypeOK, Call
<1>2. /\ pc'[r] = pc[r] /\ call'[r] = call[r] /\ todo'[r] = todo[r]
      /\ changed'[r] = changed[r] /\ logged'[r] = logged[r]
      /\ \A t \in Tool : lock[t] = r => lock'[t] = r /\ enabled'[t] = enabled[t]
  BY DEF Frame
<1>3. \A t : At(r, t)' <=> At(r, t)
  BY <1>2 DEF At
<1>4. \A t \in Tool : lock[t] = r => (Due(r, t)' <=> Due(r, t))
  BY <1>2 DEF Due
<1>5. /\ pc'[r] = "idle" => todo'[r] = {} /\ changed'[r] = {} /\ logged'[r] = {}
      /\ pc'[r] # "idle" => Wanted(call[r])'
      /\ pc'[r] = "commit" => todo'[r] = {}
      /\ pc'[r] = "write" => call'[r].op = "decide"
      /\ logged'[r] = changed'[r] \ todo'[r]
  BY <1>1, <1>2 DEF SessionInv, Wanted
<1>6. \A t \in call'[r].tools \ todo'[r] :
        pc'[r] # "idle" => lock'[t] = r /\ (t \in changed'[r] <=> Due(r, t)')
  BY <1>1, <1>2, <1>4 DEF SessionInv
<1>7. \A t \in changed'[r] \cap todo'[r] :
        At(r, t)' /\ pc'[r] = "log" /\ lock'[t] = r /\ Due(r, t)'
  BY <1>1, <1>2, <1>3, <1>4 DEF SessionInv
<1>8. \A t \in todo'[r] : At(r, t)' =>
        /\ pc'[r] = "write" => lock'[t] = r /\ Due(r, t)'
        /\ pc'[r] = "log" => t \in changed'[r]
  BY <1>1, <1>2, <1>3, <1>4 DEF SessionInv
<1> QED BY <1>5, <1>6, <1>7, <1>8 DEF SessionInv

(* The head of a loop is unique.                                            *)
LEMMA OneHead ==
    ASSUME TypeOK, NEW s \in Session, NEW t \in Tool, At(s, t), NEW u, At(s, u)
    PROVE  u = t
<1>1. u \in Tool
  BY DEF At, TypeOK
<1> QED BY <1>1, CatalogAssumption DEF At, Tool

-----------------------------------------------------------------------------
(* A decision is taken up.                                                  *)
LEMMA BeginStep ==
    ASSUME RegistryInv, NEW s \in Session, NEW op \in {"decide", "seed"}, NEW tools \in SUBSET Tool,
           NEW value \in BOOLEAN, Begin(s, op, tools, value),
           Wanted([op |-> op, tools |-> tools, value |-> value]),
           op = "seed" => ~seeded /\ \A other \in Session : call[other].op # "seed"
    PROVE  RegistryInv'
<1> DEFINE new == [op |-> op, tools |-> tools, value |-> value]
<1>1. TypeOK /\ AuditAgrees /\ OneSeed /\ SessionInv(s)
  BY DEF RegistryInv
<1>2. /\ pc[s] = "idle"
      /\ call' = [call EXCEPT ![s] = new] /\ todo' = [todo EXCEPT ![s] = tools]
      /\ pc' = [pc EXCEPT ![s] = IF tools = {} THEN "commit" ELSE "lock"]
      /\ lock' = lock /\ changed' = changed /\ logged' = logged
      /\ enabled' = enabled /\ audit' = audit /\ seeded' = seeded
  BY DEF Begin, Goto, registry
<1>3. /\ call'[s] = new /\ todo'[s] = tools /\ changed'[s] = {} /\ logged'[s] = {}
      /\ pc'[s] = (IF tools = {} THEN "commit" ELSE "lock")
      /\ \A r \in Session \ {s} : call'[r] = call[r] /\ todo'[r] = todo[r] /\ pc'[r] = pc[r]
  BY <1>1, <1>2 DEF TypeOK, SessionInv
<1>4. TypeOK'
  <2>1. new \in Call
    BY DEF Call
  <2>2. call' \in [Session -> Call] /\ todo' \in [Session -> SUBSET Tool]
    BY <1>1, <1>2, <2>1 DEF TypeOK
  <2>3. pc' \in [Session -> {"idle", "lock", "write", "log", "commit"}]
    BY <1>1, <1>2 DEF TypeOK
  <2>4. \A r \in Session : todo'[r] \cup changed'[r] \cup logged'[r] \subseteq call'[r].tools
    BY <1>1, <1>2, <1>3 DEF TypeOK
  <2> QED BY <1>1, <1>2, <2>2, <2>3, <2>4 DEF TypeOK, RegistryOK
<1>5. AuditAgrees' /\ OneSeed'
  BY <1>1, <1>2, <1>3 DEF AuditAgrees, OneSeed
<1>6. SessionInv(s)'
  BY <1>3 DEF SessionInv, Wanted
<1>7. Frame(s)
  BY <1>2, <1>3 DEF Frame
<1> QED BY <1>4, <1>5, <1>6, <1>7, OthersKeep DEF RegistryInv

(* A row is locked and found to be as decided, or not.                      *)
LEMMA HoldStep ==
    ASSUME RegistryInv, NEW s \in Session, NEW t \in Tool, Hold(s, t)
    PROVE  RegistryInv'
<1>1. TypeOK /\ AuditAgrees /\ OneSeed /\ SessionInv(s) /\ call[s].tools \subseteq Tool
  BY DEF RegistryInv, TypeOK, Call
<1>2. /\ pc[s] = "lock" /\ call[s].op = "decide" /\ At(s, t) /\ lock[t] \in {Nobody, s}
      /\ lock' = [lock EXCEPT ![t] = s] /\ call' = call /\ changed' = changed /\ logged' = logged
      /\ enabled' = enabled /\ audit' = audit /\ seeded' = seeded
      /\ \/ /\ enabled[t] = call[s].value /\ todo' = [todo EXCEPT ![s] = @ \ {t}]
            /\ pc' = [pc EXCEPT ![s] = IF todo[s] = {t} THEN "commit" ELSE "lock"]
         \/ /\ enabled[t] # call[s].value /\ todo' = todo
            /\ pc' = [pc EXCEPT ![s] = "write"]
  BY DEF Hold, TakeLock, Through, Goto, registry
<1>3. /\ lock'[t] = s /\ \A u \in Tool \ {t} : lock'[u] = lock[u]
      /\ t \in todo[s] /\ t \in call[s].tools /\ changed[s] \cap todo[s] = {}
  BY <1>1, <1>2 DEF TypeOK, At, SessionInv
<1>4. TypeOK'
  <2>1. lock' \in [Tool -> Session \cup {Nobody}]
    BY <1>1, <1>2 DEF TypeOK
  <2>2. /\ pc' \in [Session -> {"idle", "lock", "write", "log", "commit"}]
        /\ todo' \in [Session -> SUBSET Tool] /\ \A r \in Session : todo'[r] \subseteq todo[r]
    BY <1>1, <1>2 DEF TypeOK
  <2> QED BY <1>1, <1>2, <2>1, <2>2 DEF TypeOK, RegistryOK
<1>5. AuditAgrees' /\ OneSeed'
  BY <1>1, <1>2 DEF AuditAgrees, OneSeed
<1>6. \A u : Due(s, u)' <=> Due(s, u)
  BY <1>2 DEF Due
<1>7. SessionInv(s)'
  <2>1. CASE enabled[t] = call[s].value
    <3>1. /\ todo'[s] = todo[s] \ {t} /\ pc'[s] = (IF todo[s] = {t} THEN "commit" ELSE "lock")
          /\ ~Due(s, t) /\ t \notin changed[s]
      BY <1>1, <1>2, <1>3, <2>1 DEF TypeOK, Due
    <3>2. \A u \in call[s].tools \ todo'[s] : lock'[u] = s /\ (u \in changed[s] <=> Due(s, u))
      BY <1>1, <1>2, <1>3, <3>1 DEF SessionInv
    <3> QED BY <1>1, <1>2, <1>3, <1>6, <3>1, <3>2 DEF SessionInv, Wanted
  <2>2. CASE enabled[t] # call[s].value
    <3>1. todo'[s] = todo[s] /\ pc'[s] = "write" /\ Due(s, t)
      BY <1>1, <1>2, <2>2 DEF TypeOK, Due
    <3>2. \A u : At(s, u)' => u = t
      BY <1>1, <1>2, <3>1, OneHead DEF At
    <3>3. \A u \in call[s].tools \ todo'[s] : lock'[u] = s /\ (u \in changed[s] <=> Due(s, u))
      BY <1>1, <1>2, <1>3, <3>1 DEF SessionInv
    <3> QED BY <1>1, <1>2, <1>3, <1>6, <3>1, <3>2, <3>3 DEF SessionInv, Wanted
  <2> QED BY <2>1, <2>2
<1>8. Frame(s)
  <2>1. \A r \in Session \ {s} : \A u \in Tool : lock[u] = r => lock'[u] = r
    BY <1>2, <1>3, SessionAssumption
  <2> QED BY <1>1, <1>2, <2>1 DEF Frame, TypeOK
<1> QED BY <1>4, <1>5, <1>7, <1>8, OthersKeep DEF RegistryInv

(* A row is changed.                                                        *)
LEMMA WriteStep ==
    ASSUME RegistryInv, NEW s \in Session, NEW t \in Tool, Write(s, t)
    PROVE  RegistryInv'
<1>1. TypeOK /\ AuditAgrees /\ OneSeed /\ SessionInv(s) /\ call[s].tools \subseteq Tool
  BY DEF RegistryInv, TypeOK, Call
<1>2. /\ (pc[s] = "write" \/ (pc[s] = "lock" /\ call[s].op = "seed"))
      /\ At(s, t) /\ lock[t] \in {Nobody, s}
      /\ lock' = [lock EXCEPT ![t] = s] /\ call' = call /\ todo' = todo /\ logged' = logged
      /\ changed' = [changed EXCEPT ![s] = @ \cup {t}] /\ pc' = [pc EXCEPT ![s] = "log"]
      /\ enabled' = enabled /\ audit' = audit /\ seeded' = seeded
  BY DEF Write, TakeLock, Goto, registry
<1>3. /\ lock'[t] = s /\ \A u \in Tool \ {t} : lock'[u] = lock[u]
      /\ t \in todo[s] /\ t \in call[s].tools /\ changed[s] \cap todo[s] = {}
      /\ changed'[s] = changed[s] \cup {t} /\ pc'[s] = "log" /\ Due(s, t)
  BY <1>1, <1>2 DEF TypeOK, At, SessionInv, Due
<1>4. TypeOK'
  <2>1. lock' \in [Tool -> Session \cup {Nobody}]
    BY <1>1, <1>2 DEF TypeOK
  <2>2. /\ pc' \in [Session -> {"idle", "lock", "write", "log", "commit"}]
        /\ changed' \in [Session -> SUBSET Tool]
    BY <1>1, <1>2 DEF TypeOK
  <2>3. \A r \in Session : changed'[r] \subseteq call[r].tools
    BY <1>1, <1>2, <1>3 DEF TypeOK
  <2> QED BY <1>1, <1>2, <2>1, <2>2, <2>3 DEF TypeOK, RegistryOK
<1>5. AuditAgrees' /\ OneSeed'
  BY <1>1, <1>2 DEF AuditAgrees, OneSeed
<1>6. \A u : (Due(s, u)' <=> Due(s, u)) /\ (At(s, u)' <=> At(s, u))
  BY <1>2 DEF Due, At
<1>7. SessionInv(s)'
  <2>1. \A u : At(s, u) => u = t
    BY <1>1, <1>2, OneHead
  <2>2. \A u \in call[s].tools \ todo[s] : lock'[u] = s /\ (u \in changed'[s] <=> Due(s, u))
    BY <1>1, <1>2, <1>3 DEF SessionInv
  <2>3. changed'[s] \cap todo[s] = {t} /\ logged[s] = changed'[s] \ todo[s]
    BY <1>1, <1>3 DEF SessionInv
  <2>4. Wanted(call[s])'
    BY <1>1, <1>2 DEF SessionInv, Wanted
  <2> QED BY <1>2, <1>3, <1>6, <2>1, <2>2, <2>3, <2>4 DEF SessionInv
<1>8. Frame(s)
  <2>1. \A r \in Session \ {s} : \A u \in Tool : lock[u] = r => lock'[u] = r
    BY <1>2, <1>3, SessionAssumption
  <2> QED BY <1>1, <1>2, <2>1 DEF Frame, TypeOK
<1> QED BY <1>4, <1>5, <1>7, <1>8, OthersKeep DEF RegistryInv

(* A change is logged and the loop moves on.                                *)
LEMMA LogStep ==
    ASSUME RegistryInv, NEW s \in Session, NEW t \in Tool, Log(s, t)
    PROVE  RegistryInv'
<1>1. TypeOK /\ AuditAgrees /\ OneSeed /\ SessionInv(s) /\ call[s].tools \subseteq Tool
  BY DEF RegistryInv, TypeOK, Call
<1>2. /\ pc[s] = "log" /\ At(s, t)
      /\ lock' = lock /\ call' = call /\ changed' = changed
      /\ logged' = [logged EXCEPT ![s] = @ \cup {t}] /\ todo' = [todo EXCEPT ![s] = @ \ {t}]
      /\ pc' = [pc EXCEPT ![s] = IF todo[s] = {t} THEN "commit" ELSE "lock"]
      /\ enabled' = enabled /\ audit' = audit /\ seeded' = seeded
  BY DEF Log, Through, Goto, registry
<1>3. /\ todo'[s] = todo[s] \ {t} /\ logged'[s] = logged[s] \cup {t}
      /\ pc'[s] = (IF todo[s] = {t} THEN "commit" ELSE "lock")
      /\ t \in todo[s] /\ t \in changed[s] /\ lock[t] = s /\ Due(s, t)
      /\ changed[s] \cap todo[s] = {t} /\ t \in call[s].tools
  <2>1. t \in todo[s] /\ t \in changed[s] /\ t \in call[s].tools
    BY <1>1, <1>2 DEF At, SessionInv, TypeOK
  <2>2. \A u \in changed[s] \cap todo[s] : u = t
    BY <1>1, <1>2, OneHead DEF SessionInv
  <2> QED BY <1>1, <1>2, <2>1, <2>2 DEF TypeOK, SessionInv
<1>4. TypeOK'
  <2>1. /\ pc' \in [Session -> {"idle", "lock", "write", "log", "commit"}]
        /\ todo' \in [Session -> SUBSET Tool] /\ logged' \in [Session -> SUBSET Tool]
    BY <1>1, <1>2 DEF TypeOK
  <2>2. \A r \in Session : todo'[r] \subseteq call[r].tools /\ logged'[r] \subseteq call[r].tools
    BY <1>1, <1>2, <1>3 DEF TypeOK
  <2> QED BY <1>1, <1>2, <2>1, <2>2 DEF TypeOK, RegistryOK
<1>5. AuditAgrees' /\ OneSeed'
  BY <1>1, <1>2 DEF AuditAgrees, OneSeed
<1>6. \A u : Due(s, u)' <=> Due(s, u)
  BY <1>2 DEF Due
<1>7. SessionInv(s)'
  <2>1. \A u \in call[s].tools \ todo'[s] : lock[u] = s /\ (u \in changed[s] <=> Due(s, u))
    BY <1>1, <1>2, <1>3 DEF SessionInv
  <2>2. changed[s] \cap todo'[s] = {} /\ logged'[s] = changed[s] \ todo'[s]
    BY <1>1, <1>3 DEF SessionInv
  <2>3. Wanted(call[s])'
    BY <1>1, <1>2 DEF SessionInv, Wanted
  <2>4. pc'[s] \in {"commit", "lock"} /\ (pc'[s] = "commit" => todo'[s] = {})
    BY <1>3
  <2> QED BY <1>2, <1>6, <2>1, <2>2, <2>3, <2>4 DEF SessionInv
<1>8. Frame(s)
  BY <1>1, <1>2 DEF Frame, TypeOK
<1> QED BY <1>4, <1>5, <1>7, <1>8, OthersKeep DEF RegistryInv

(* A transaction ends and releases its locks.                               *)
LEMMA EndStep ==
    ASSUME RegistryInv, NEW s \in Session, End(s), RegistryOK', AuditAgrees',
           \A t \in Tool : lock[t] \in Session \ {s} => enabled'[t] = enabled[t],
           seeded' => seeded \/ call[s].op = "seed"
    PROVE  RegistryInv'
<1>1. TypeOK /\ OneSeed
  BY DEF RegistryInv
<1>2. /\ lock' = [t \in Tool |-> IF lock[t] = s THEN Nobody ELSE lock[t]]
      /\ pc' = [pc EXCEPT ![s] = "idle"] /\ call' = [call EXCEPT ![s] = NoCall]
      /\ todo' = [todo EXCEPT ![s] = {}] /\ changed' = [changed EXCEPT ![s] = {}]
      /\ logged' = [logged EXCEPT ![s] = {}]
  BY DEF End, Goto
<1>3. /\ pc'[s] = "idle" /\ call'[s] = NoCall
      /\ todo'[s] = {} /\ changed'[s] = {} /\ logged'[s] = {}
      /\ \A r \in Session \ {s} :
            /\ pc'[r] = pc[r] /\ call'[r] = call[r] /\ todo'[r] = todo[r]
            /\ changed'[r] = changed[r] /\ logged'[r] = logged[r]
  BY <1>1, <1>2 DEF TypeOK
<1>4. TypeOK'
  <2>1. lock' \in [Tool -> Session \cup {Nobody}]
    BY <1>1, <1>2 DEF TypeOK
  <2>2. NoCall \in Call
    BY DEF NoCall, Call
  <2>3. /\ pc' \in [Session -> {"idle", "lock", "write", "log", "commit"}]
        /\ call' \in [Session -> Call] /\ todo' \in [Session -> SUBSET Tool]
        /\ changed' \in [Session -> SUBSET Tool] /\ logged' \in [Session -> SUBSET Tool]
    BY <1>1, <1>2, <2>2 DEF TypeOK
  <2>4. \A r \in Session : todo'[r] \cup changed'[r] \cup logged'[r] \subseteq call'[r].tools
    BY <1>1, <1>3 DEF TypeOK
  <2> QED BY <2>1, <2>3, <2>4 DEF TypeOK
<1>5. OneSeed'
  BY <1>1, <1>3 DEF OneSeed, NoCall
<1>6. SessionInv(s)'
  BY <1>3 DEF SessionInv, NoCall
<1>7. Frame(s)
  <2>1. \A r \in Session \ {s} : \A u \in Tool : lock[u] = r => lock'[u] = r
    BY <1>2
  <2> QED BY <1>3, <2>1 DEF Frame
<1> QED BY <1>4, <1>5, <1>6, <1>7, OthersKeep DEF RegistryInv

(* A session that is through has changed, and logged, what was due.         *)
LEMMA ThroughIsDue ==
    ASSUME RegistryInv, NEW s \in Session, pc[s] = "commit"
    PROVE  /\ Wanted(call[s]) /\ call[s].value \in BOOLEAN /\ call[s].tools \subseteq Tool
           /\ changed[s] = {t \in call[s].tools : Due(s, t)} /\ logged[s] = changed[s]
           /\ \A t \in changed[s] : lock[t] = s
<1>1. TypeOK /\ SessionInv(s)
  BY DEF RegistryInv
<1>2. call[s] \in Call /\ todo[s] = {} /\ changed[s] \subseteq call[s].tools
  BY <1>1 DEF TypeOK, SessionInv
<1>3. \A t \in call[s].tools : lock[t] = s /\ (t \in changed[s] <=> Due(s, t))
  BY <1>1, <1>2 DEF SessionInv
<1> QED BY <1>1, <1>2, <1>3 DEF SessionInv, Call

(* A transaction commits.                                                   *)
LEMMA CommitStep ==
    ASSUME RegistryInv, NEW s \in Session, Commit(s)
    PROVE  RegistryInv'
<1> DEFINE value == call[s].value
<1>1. TypeOK /\ RegistryOK /\ AuditAgrees
  BY DEF RegistryInv, TypeOK
<1>2. /\ pc[s] = "commit" /\ End(s)
      /\ enabled' = [t \in Tool |-> IF t \in changed[s] THEN value ELSE enabled[t]]
      /\ audit' = [t \in Tool |-> IF t \in logged[s] THEN Append(audit[t], value) ELSE audit[t]]
      /\ seeded' = (seeded \/ call[s].op = "seed")
  BY DEF Commit
<1>3. /\ value \in BOOLEAN /\ logged[s] = changed[s]
      /\ \A t \in changed[s] : lock[t] = s
  BY <1>2, ThroughIsDue
<1>4. RegistryOK'
  <2>1. enabled' \in [Tool -> BOOLEAN] /\ seeded' \in BOOLEAN
    BY <1>1, <1>2, <1>3 DEF RegistryOK
  <2>2. \A t \in Tool : audit[t] \in Seq(BOOLEAN) /\ Append(audit[t], value) \in Seq(BOOLEAN)
    BY <1>1, <1>3 DEF RegistryOK
  <2>3. audit' \in [Tool -> Seq(BOOLEAN)]
    BY <1>2, <2>2
  <2> QED BY <2>1, <2>3 DEF RegistryOK
<1>5. AuditAgrees'
  <2> SUFFICES ASSUME NEW t \in Tool
               PROVE  enabled'[t] <=> (Len(audit'[t]) > 0 /\ audit'[t][Len(audit'[t])])
    BY DEF AuditAgrees
  <2>1. audit[t] \in Seq(BOOLEAN)
    BY <1>1 DEF RegistryOK
  <2>2. CASE t \in changed[s]
    <3>1. enabled'[t] = value /\ audit'[t] = Append(audit[t], value)
      BY <1>2, <1>3, <2>2
    <3>2. Len(audit'[t]) > 0 /\ audit'[t][Len(audit'[t])] = value
      BY <1>3, <2>1, <3>1
    <3> QED BY <3>1, <3>2
  <2>3. CASE t \notin changed[s]
    BY <1>1, <1>2, <1>3, <2>3 DEF AuditAgrees
  <2> QED BY <2>2, <2>3
<1>6. \A t \in Tool : lock[t] \in Session \ {s} => enabled'[t] = enabled[t]
  BY <1>2, <1>3
<1> QED BY <1>2, <1>4, <1>5, <1>6, EndStep

(* A transaction is rolled back.                                            *)
LEMMA RollbackStep ==
    ASSUME RegistryInv, NEW s \in Session, Rollback(s)
    PROVE  RegistryInv'
<1>1. End(s) /\ enabled' = enabled /\ audit' = audit /\ seeded' = seeded
  BY DEF Rollback, registry
<1>2. RegistryOK' /\ AuditAgrees'
  BY <1>1 DEF RegistryInv, TypeOK, RegistryOK, AuditAgrees
<1> QED BY <1>1, <1>2, EndStep

-----------------------------------------------------------------------------
(* The invariant holds initially.                                           *)
LEMMA RegistryInitInv == Init => RegistryInv
<1> SUFFICES ASSUME Init PROVE RegistryInv
  OBVIOUS
<1>1. /\ enabled = [t \in Tool |-> FALSE] /\ audit = [t \in Tool |-> <<>>] /\ seeded = FALSE
      /\ lock = [t \in Tool |-> Nobody] /\ pc = [s \in Session |-> "idle"]
      /\ call = [s \in Session |-> NoCall] /\ todo = [s \in Session |-> {}]
      /\ changed = [s \in Session |-> {}] /\ logged = [s \in Session |-> {}]
  BY DEF Init, NoSessions, LogInit
<1>2. NoCall \in Call /\ NoCall.op = "none" /\ NoCall.tools = {}
  BY DEF NoCall, Call
<1>3. RegistryOK
  <2>1. <<>> \in Seq(BOOLEAN)
    OBVIOUS
  <2> QED BY <1>1, <2>1 DEF RegistryOK
<1>4. TypeOK
  BY <1>1, <1>2, <1>3 DEF TypeOK
<1>5. AuditAgrees
  BY <1>1 DEF AuditAgrees
<1>6. OneSeed /\ \A s \in Session : SessionInv(s)
  BY <1>1, <1>2 DEF OneSeed, SessionInv
<1> QED BY <1>4, <1>5, <1>6 DEF RegistryInv

(* Every step preserves the invariant.                                      *)
LEMMA RegistryNextInv == RegistryInv /\ [Next]_vars => RegistryInv'
<1> SUFFICES ASSUME RegistryInv, [Next]_vars PROVE RegistryInv'
  OBVIOUS
<1>1. ASSUME NEW s \in Session, Toggle(s) PROVE RegistryInv'
  <2>1. PICK S \in Lists, value \in BOOLEAN : Begin(s, "decide", S, value)
    BY <1>1 DEF Toggle
  <2>2. S \subseteq Tool /\ Wanted([op |-> "decide", tools |-> S, value |-> value])
    BY DEF Lists, Wanted
  <2> QED BY <2>1, <2>2, BeginStep
<1>2. ASSUME NEW s \in Session, Preset(s) PROVE RegistryInv'
  <2>1. PICK preset \in Presets : Begin(s, "decide", preset[1], preset[2])
    BY <1>2 DEF Preset
  <2>2. preset = <<Reviewed, TRUE>> \/ preset = <<Tool, FALSE>>
    BY DEF Presets
  <2>3. /\ preset[1] \subseteq Tool /\ preset[2] \in BOOLEAN
        /\ <<preset[1], preset[2]>> \in Presets
    <3>1. CASE preset = <<Reviewed, TRUE>>
      <4>1. preset[1] = Reviewed /\ preset[2] = TRUE
        BY <3>1
      <4> QED BY <4>1, CatalogAssumption DEF Presets
    <3>2. CASE preset = <<Tool, FALSE>>
      <4>1. preset[1] = Tool /\ preset[2] = FALSE
        BY <3>2
      <4> QED BY <4>1 DEF Presets
    <3> QED BY <2>2, <3>1, <3>2
  <2>4. Wanted([op |-> "decide", tools |-> preset[1], value |-> preset[2]])
    BY <2>3 DEF Wanted
  <2> QED BY <2>1, <2>3, <2>4, BeginStep
<1>3. ASSUME NEW s \in Session, Seed(s) PROVE RegistryInv'
  <2>1. Wanted([op |-> "seed", tools |-> Reviewed, value |-> TRUE])
    BY DEF Wanted
  <2> QED BY <1>3, <2>1, BeginStep, CatalogAssumption DEF Seed
<1>4. ASSUME NEW s \in Session, Statement(s) PROVE RegistryInv'
  <2>1. ASSUME NEW t \in Tool, LogExhausted(s, t) PROVE RegistryInv'
    BY <2>1, RollbackStep DEF LogExhausted
  <2> QED BY <1>4, <2>1, HoldStep, WriteStep, LogStep, CommitStep DEF Statement
<1>5. CASE UNCHANGED vars
  BY <1>5 DEF vars, registry, sessions, RegistryInv, TypeOK, RegistryOK, AuditAgrees, OneSeed,
              SessionInv, At, Due, Wanted
<1> QED BY <1>1, <1>2, <1>3, <1>4, <1>5, RollbackStep DEF Next

(* The invariant holds in every reachable state.                            *)
THEOREM RegistryInvariant == Spec => []RegistryInv
<1> QED BY RegistryInitInv, RegistryNextInv, PTL DEF Spec

(* In every reachable state the registry agrees with its audit history:     *)
(* set_tool_availability, the presets and the default seed never change a   *)
(* tool without logging it, whatever fails and whoever interferes.          *)
LEMMA RegistrySafety == Spec => [](TypeOK /\ AuditAgrees)
<1>1. RegistryInv => TypeOK /\ AuditAgrees
  BY DEF RegistryInv
<1> QED BY <1>1, RegistryInvariant, PTL

(* Rows, locks and sessions of the tool registry keep their types.          *)
THEOREM RegistryTypes == Spec => []TypeOK
BY RegistrySafety, PTL

(* A tool is never changed without its audit entry, by toggles, presets and *)
(* the default seed alike.                                                  *)
THEOREM RegistryIsAudited == Spec => []AuditAgrees
BY RegistrySafety, PTL

-----------------------------------------------------------------------------
(* A commit is a decision of the abstract log.                              *)
LEMMA CommitDecides ==
    ASSUME RegistryInv, NEW s \in Session, Commit(s)
    PROVE  LogNext
<1> DEFINE S == call[s].tools
<1> DEFINE value == call[s].value
<1>1. /\ Wanted(call[s]) /\ value \in BOOLEAN /\ S \subseteq Tool
      /\ changed[s] = {t \in S : Due(s, t)} /\ logged[s] = changed[s]
      /\ OneSeed /\ seeded \in BOOLEAN
  BY ThroughIsDue DEF Commit, RegistryInv, TypeOK, RegistryOK
<1>2. Logged(changed[s], value) /\ seeded' = (seeded \/ call[s].op = "seed")
  BY <1>1 DEF Commit, Logged
<1>3. CASE call[s].op = "decide"
  <2>1. changed[s] = {t \in S : enabled[t] # value} /\ seeded' = seeded
    BY <1>1, <1>2, <1>3 DEF Due
  <2>2. Decided(S, value)
    BY <1>2, <2>1 DEF Decided
  <2>3. S \in Lists \/ <<S, value>> \in Presets
    BY <1>1, <1>3 DEF Wanted
  <2>4. <<S, value>>[1] = S /\ <<S, value>>[2] = value
    OBVIOUS
  <2> QED BY <1>1, <2>2, <2>3, <2>4 DEF LogNext
<1>4. CASE call[s].op = "seed"
  <2>1. changed[s] = Reviewed /\ value = TRUE /\ ~seeded /\ seeded' = TRUE
    BY <1>1, <1>2, <1>4 DEF Due, Wanted, OneSeed
  <2> QED BY <1>2, <2>1 DEF DefaultApplied, LogNext
<1> QED BY <1>1, <1>3, <1>4 DEF Wanted

(* Concurrent decisions are atomic: every behaviour of the sessions is one  *)
(* of the abstract log.                                                     *)
THEOREM RegistryRefinesLog == Spec => RefinesLog
<1>1. Init => LogInit
  BY DEF Init
<1>2. ASSUME RegistryInv, [Next]_vars PROVE [LogNext]_registry
  <2>1. ASSUME NEW s \in Session, NEW op, NEW S, NEW value, Begin(s, op, S, value)
        PROVE  UNCHANGED registry
    BY <2>1 DEF Begin, registry
  <2>2. ASSUME NEW s \in Session, Statement(s), ~Commit(s) PROVE UNCHANGED registry
    BY <2>2 DEF Statement, Hold, Write, Log, LogExhausted, Rollback, registry
  <2>3. ASSUME NEW s \in Session, Toggle(s) \/ Preset(s) \/ Seed(s) \/ Rollback(s)
        PROVE  UNCHANGED registry
    BY <2>1, <2>3 DEF Toggle, Preset, Seed, Rollback
  <2>4. CASE UNCHANGED vars
    BY <2>4 DEF vars
  <2> QED BY <1>2, <2>2, <2>3, <2>4, CommitDecides DEF Next
<1> QED BY <1>1, <1>2, RegistryInvariant, PTL DEF Spec, RefinesLog, LogSpec

-----------------------------------------------------------------------------
(* Waiting.                                                                 *)

(* A set of numbers has a least one.                                        *)
LEMMA LeastNumber ==
    ASSUME NEW T, T \subseteq Nat, T # {}
    PROVE  \E x \in T : \A y \in T : x <= y
<1> DEFINE R == OpToRel(<, Nat)
<1>1. IsWellFoundedOn(R, Nat)
  BY NatLessThanWellFounded
<1>2. \E x \in T : \A y \in T : ~ (<<y, x>> \in R)
  <2> HIDE DEF R
  <2> QED BY <1>1, WFMin
<1>3. PICK x \in T : \A y \in T : ~ (<<y, x>> \in R)
  BY <1>2
<1>4. \A y \in T : ~(y < x)
  BY <1>3 DEF OpToRel
<1> QED BY <1>4

(* The rows a session holds come before those its loop has not reached, and *)
(* between calls it holds none.                                             *)
Ordered ==
    \A s \in Session, t \in Tool : lock[t] = s =>
        pc[s] # "idle" /\ \A u \in todo[s] : t <= u

(* A step of s that takes no row but the one at the head of its loop.       *)
LEMMA OrderKept ==
    ASSUME TypeOK, Ordered, NEW s \in Session, pc'[s] # "idle",
           \A u \in todo'[s] : u \in todo[s] \/ pc[s] = "idle",
           \A t \in Tool : lock'[t] = lock[t] \/ (lock'[t] = s /\ At(s, t) /\ todo'[s] \subseteq todo[s]),
           \A r \in Session \ {s} : pc'[r] = pc[r] /\ todo'[r] = todo[r]
    PROVE  Ordered'
<1> SUFFICES ASSUME NEW r \in Session, NEW t \in Tool, lock'[t] = r
             PROVE  pc'[r] # "idle" /\ \A u \in todo'[r] : t <= u
  BY DEF Ordered
<1>1. CASE r = s
  BY <1>1 DEF Ordered, At
<1>2. CASE r # s
  BY <1>2 DEF Ordered
<1> QED BY <1>1, <1>2

(* The end of a transaction.                                                *)
LEMMA OrderEnds ==
    ASSUME TypeOK, Ordered, NEW s \in Session, End(s)
    PROVE  Ordered'
<1> SUFFICES ASSUME NEW r \in Session, NEW t \in Tool, lock'[t] = r
             PROVE  pc'[r] # "idle" /\ \A u \in todo'[r] : t <= u
  BY DEF Ordered
<1>1. r # s /\ lock[t] = r
  BY SessionAssumption DEF End
<1>2. pc'[r] = pc[r] /\ todo'[r] = todo[r]
  BY <1>1 DEF End, Goto, TypeOK
<1> QED BY <1>1, <1>2 DEF Ordered

(* Every step.                                                              *)
LEMMA OrderNext == ASSUME TypeOK, Ordered, [Next]_vars PROVE Ordered'
<1>1. ASSUME NEW s \in Session, NEW op, NEW S, NEW value, Begin(s, op, S, value) PROVE Ordered'
  <2>1. /\ lock' = lock /\ pc'[s] # "idle" /\ pc[s] = "idle"
        /\ \A r \in Session \ {s} : pc'[r] = pc[r] /\ todo'[r] = todo[r]
    BY <1>1 DEF Begin, Goto, TypeOK
  <2>2. /\ \A u \in todo'[s] : u \in todo[s] \/ pc[s] = "idle"
        /\ \A t \in Tool : lock'[t] = lock[t] \/ (lock'[t] = s /\ At(s, t) /\ todo'[s] \subseteq todo[s])
    BY <2>1
  <2> QED BY <2>1, <2>2, OrderKept
<1>2. ASSUME NEW s \in Session, NEW t \in Tool, Hold(s, t) \/ Write(s, t) \/ Log(s, t)
      PROVE  Ordered'
  <2>1. /\ pc'[s] # "idle" /\ todo'[s] \subseteq todo[s] /\ At(s, t)
        /\ \A r \in Session \ {s} : pc'[r] = pc[r] /\ todo'[r] = todo[r]
    BY <1>2 DEF Hold, Write, Log, Through, Goto, TypeOK
  <2>2. \A u \in Tool : lock'[u] = lock[u] \/ (u = t /\ lock'[u] = s)
    BY <1>2 DEF Hold, Write, Log, TakeLock, TypeOK
  <2>3. /\ \A u \in todo'[s] : u \in todo[s] \/ pc[s] = "idle"
        /\ \A u \in Tool : lock'[u] = lock[u] \/ (lock'[u] = s /\ At(s, u) /\ todo'[s] \subseteq todo[s])
    BY <2>1, <2>2
  <2> QED BY <2>1, <2>3, OrderKept
<1>3. ASSUME NEW s \in Session, Commit(s) \/ Rollback(s) PROVE Ordered'
  BY <1>3, OrderEnds DEF Commit, Rollback
<1>4. ASSUME NEW s \in Session, Statement(s) PROVE Ordered'
  BY <1>2, <1>3, <1>4 DEF Statement, LogExhausted
<1>5. CASE UNCHANGED vars
  BY <1>5 DEF vars, sessions, Ordered
<1> QED BY <1>1, <1>3, <1>4, <1>5 DEF Next, Toggle, Preset, Seed

LEMMA OrderHolds == Spec => [](TypeOK /\ Ordered)
<1>1. Init => Ordered
  BY SessionAssumption DEF Init, NoSessions, Ordered
<1>2. RegistryInv => TypeOK
  BY DEF RegistryInv
<1>3. TypeOK /\ Ordered /\ [Next]_vars => Ordered'
  BY OrderNext
<1> QED BY <1>1, <1>2, <1>3, RegistryInvariant, PTL DEF Spec

(* Whatever the number of sessions and tools, no circle of waits: the one   *)
(* that waits for the last tool waits for a session that has it behind it.  *)
THEOREM RegistryDeadlockFree == Spec => []NoDeadlock
<1>1. ASSUME TypeOK, Ordered PROVE NoDeadlock
  <2> SUFFICES ASSUME NEW W \in (SUBSET Session) \ {{}}, \A s \in W : \E r \in W : WaitsFor(s, r)
               PROVE  FALSE
    BY DEF NoDeadlock
  <2> DEFINE Left == {Last - t : t \in {u \in Tool : \E s \in W : At(s, u)}}
  <2>1. Left \subseteq Nat /\ Left # {}
    BY CatalogAssumption DEF Tool, WaitsFor
  <2>2. PICK least \in Left : \A n \in Left : least <= n
    <3> HIDE DEF Left
    <3> QED BY <2>1, LeastNumber
  <2>3. PICK t \in Tool, s \in W : At(s, t) /\ least = Last - t
    OBVIOUS
  <2>4. PICK r \in W : WaitsFor(s, r)
    OBVIOUS
  <2>5. r # s /\ lock[t] = r
    BY <2>3, <2>4, <1>1, OneHead DEF WaitsFor
  <2>6. PICK u \in Tool : At(r, u) /\ lock[u] # r
    BY SessionAssumption DEF WaitsFor
  <2>7. t <= u /\ t # u
    BY <1>1, <2>5, <2>6 DEF Ordered, At
  <2>8. Last - u \in Left /\ Last - u < Last - t
    BY <2>6, <2>7, CatalogAssumption DEF Tool
  <2> QED BY <2>2, <2>3, <2>8, <2>1
<1> QED BY <1>1, OrderHolds, PTL

-----------------------------------------------------------------------------
(* The gateway among the sessions, as long as no decision is rolled back.   *)
Awaited == at \in {"recheck", "send"} => tool \in Tool /\ (decided \/ Enabling(tool))

(* A session that goes on with its decision keeps what it has changed; one  *)
(* that commits has decided it.                                             *)
LEMMA CarriedKeeps ==
    ASSUME RegistryInv, NEW s \in Session, Carried(s), NEW t \in Tool, Enabling(t)
    PROVE  Enabling(t)' \/ enabled'[t]
<1>1. PICK r \in Session : t \in changed[r] /\ call[r].value
  BY DEF Enabling
<1>2. /\ changed \in [Session -> SUBSET Tool] /\ call \in [Session -> Call]
      /\ pc[r] # "idle"
  BY <1>1 DEF RegistryInv, TypeOK, SessionInv
<1>3. ASSUME NEW op, NEW tools, NEW value, Begin(s, op, tools, value) PROVE Enabling(t)'
  <2>1. r # s /\ changed' = changed /\ call'[r] = call[r]
    BY <1>2, <1>3 DEF Begin
  <2> QED BY <1>1, <2>1 DEF Enabling
<1>4. CASE Toggle(s) \/ Preset(s)
  BY <1>3, <1>4 DEF Toggle, Preset
<1>5. CASE Commit(s)
  <2>1. CASE r = s
    BY <1>1, <1>5, <2>1 DEF Commit
  <2>2. CASE r # s
    BY <1>1, <1>2, <1>5, <2>2 DEF Commit, End, Enabling
  <2> QED BY <2>1, <2>2
<1>6. ASSUME NEW u \in Tool, Hold(s, u) \/ Write(s, u) \/ Log(s, u) PROVE Enabling(t)'
  <2>1. call' = call /\ changed[r] \subseteq changed'[r]
    BY <1>2, <1>6 DEF Hold, Write, Log
  <2> QED BY <1>1, <2>1 DEF Enabling
<1> QED BY <1>4, <1>5, <1>6 DEF Carried

(* Lookups and decisions preserve it: a SELECT that sees a tool enabled     *)
(* sees a committed row, or the row of a session that is enabling it.       *)
LEMMA AwaitedNext ==
    ASSUME NoTool \notin Tool, RegistryInv, Awaited, [CarriedNext]_<<vars, gatewayVars>>
    PROVE  Awaited'
<1>1. ASSUME NEW t \in Tool, Check(t) PROVE Awaited'
  <2>1. /\ at' = "recheck" /\ tool' = t /\ decided' = enabled[t]
        /\ changed' = changed /\ call' = call
    BY <1>1 DEF Check, vars, sessions
  <2>2. enabled[t] \/ Enabling(t)
    BY <1>1 DEF Check, EnabledSeen, Enabling
  <2> QED BY <2>1, <2>2 DEF Awaited, Enabling
<1>2. CASE Recheck \/ Send
  BY <1>2 DEF Recheck, Send, Idle, Awaited, Enabling, vars, sessions
<1>3. ASSUME NEW s \in Session, Carried(s), Noted PROVE Awaited'
  <2> SUFFICES ASSUME at' \in {"recheck", "send"} PROVE tool' \in Tool /\ (decided \/ Enabling(tool))'
    BY DEF Awaited
  <2>1. /\ tool' = tool /\ at' = at /\ tool # NoTool
        /\ tool \in Tool /\ (decided \/ Enabling(tool))
    BY <1>3 DEF Noted, Awaited
  <2>2. decided' = (decided \/ enabled'[tool])
    BY <1>3, <2>1 DEF Noted
  <2>3. ASSUME Enabling(tool) PROVE Enabling(tool)' \/ enabled'[tool]
    <3>1. (\E r \in Session : tool \in changed'[r] /\ call'[r].value) \/ enabled'[tool]
      BY <1>3, <2>1, <2>3, CarriedKeeps DEF Enabling
    <3> QED BY <2>1, <3>1 DEF Enabling
  <2> QED BY <2>1, <2>2, <2>3
<1>4. CASE UNCHANGED <<vars, gatewayVars>>
  BY <1>4 DEF vars, gatewayVars, sessions, Awaited, Enabling
<1> QED BY <1>1, <1>2, <1>3, <1>4 DEF CarriedNext, Gateway

(* The registry setup() leaves to the gateway.                              *)
LEMMA InstalledInv == GatewayInit => RegistryInv
<1> SUFFICES ASSUME GatewayInit PROVE RegistryInv
  OBVIOUS
<1> DEFINE once == <<TRUE>>
           never == <<>>
<1>1. /\ enabled = [t \in Tool |-> t \in Reviewed]
      /\ audit = [t \in Tool |-> IF t \in Reviewed THEN once ELSE never] /\ seeded = TRUE
      /\ lock = [t \in Tool |-> Nobody] /\ pc = [s \in Session |-> "idle"]
      /\ call = [s \in Session |-> NoCall] /\ todo = [s \in Session |-> {}]
      /\ changed = [s \in Session |-> {}] /\ logged = [s \in Session |-> {}]
  BY DEF GatewayInit, Installed, NoSessions
<1>2. NoCall \in Call /\ NoCall.op = "none" /\ NoCall.tools = {}
  BY DEF NoCall, Call
<1>3. /\ once \in Seq(BOOLEAN) /\ Len(once) = 1 /\ once[1]
      /\ never \in Seq(BOOLEAN) /\ Len(never) = 0
  OBVIOUS
<1> HIDE DEF once, never
<1>4. TypeOK
  <2>1. RegistryOK
    <3>1. enabled \in [Tool -> BOOLEAN]
      <4>1. enabled = [t \in Tool |-> t \in Reviewed]
        BY <1>1
      <4> QED BY <4>1
    <3>2. audit \in [Tool -> Seq(BOOLEAN)]
      BY <1>1, <1>3
    <3> QED BY <1>1, <3>1, <3>2 DEF RegistryOK
  <2> QED BY <1>1, <1>2, <2>1 DEF TypeOK
<1>5. AuditAgrees
  <2> SUFFICES ASSUME NEW t \in Tool
               PROVE  enabled[t] <=> Len(audit[t]) > 0 /\ audit[t][Len(audit[t])]
    BY DEF AuditAgrees
  <2>1. enabled[t] <=> t \in Reviewed
    BY <1>1, Zenon
  <2>2. CASE t \in Reviewed
    <3>1. audit[t] = once
      BY <1>1, <2>2
    <3>2. Len(once) > 0 /\ once[Len(once)]
      BY <1>3
    <3> QED BY <2>1, <2>2, <3>1, <3>2, Zenon
  <2>3. CASE t \notin Reviewed
    <3>1. audit[t] = never
      BY <1>1, <2>3
    <3>2. ~(Len(never) > 0)
      BY <1>3
    <3> QED BY <2>1, <2>3, <3>1, <3>2, Zenon
  <2> QED BY <2>2, <2>3
<1>6. OneSeed /\ \A s \in Session : SessionInv(s)
  BY <1>1, <1>2 DEF OneSeed, SessionInv
<1> QED BY <1>4, <1>5, <1>6 DEF RegistryInv

(* README: "Agents can call only operations that a DBA has enabled and      *)
(* explicitly assigned to them".  The gateway's lookups without a lock      *)
(* break it by a rollback only: as long as decisions are carried out, what  *)
(* is dispatched has been enabled during its call or is about to be.        *)
THEOREM CallsAreAwaited ==
    ASSUME NoTool \notin Tool
    PROVE  CarriedSpec => []OnlyAwaitedCalls
<1>1. GatewayInit => RegistryInv /\ Awaited
  BY InstalledInv DEF GatewayInit, Awaited
<1>2. [CarriedNext]_<<vars, gatewayVars>> => [Next]_vars
  BY DEF CarriedNext, Gateway, Check, Recheck, Send, Carried, Next, Statement, gatewayVars
<1>3. Awaited => OnlyAwaitedCalls
  BY DEF Awaited, OnlyAwaitedCalls
<1>4. RegistryInv /\ Awaited /\ [CarriedNext]_<<vars, gatewayVars>> => RegistryInv' /\ Awaited'
  BY <1>2, AwaitedNext, RegistryNextInv
<1> QED BY <1>1, <1>3, <1>4, PTL DEF CarriedSpec
=============================================================================
