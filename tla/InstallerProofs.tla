--------------------------- MODULE InstallerProofs ---------------------------
(****************************************************************************)
(* What holds of an installation for every set of releases, whatever        *)
(* interruptions it has gone through.  The invariant has four parts that    *)
(* are proved one after the other: types, the ledger, the credentials with  *)
(* the stages of setup, and readiness.                                      *)
(****************************************************************************)
EXTENDS Installer, TLAPS

(* k statements of the version the loop has reached were executed.          *)
Progress ==
    /\ pc \in {"down", "clear", "csrf", "csrf_opened"} => k = 0
    /\ \A v \in DOMAIN Text[release] :
           Reached(v) /\ ledger[v] = NoText =>
               /\ k <= Len(Text[release][v])
               /\ \A i \in 1 .. k : Exists(Text[release][v][i].name)

LedgerInv == LedgerCovers /\ Progress

(* A user has the password of its file, but for a rotation under way.       *)
Agree(c) ==
    /\ file[c] = Absent => user[c] = Absent
    /\ file[c] \in Nat /\ user[c] # Absent =>
           user[c] = file[c] \/ (c = "worker" /\ Long(file[c]))

Matched(c) == file[c] \in Nat /\ user[c] = file[c]

AfterImport == {"seed", "supervise", "wait", "ready"}
AfterSecurity == {"import"} \cup AfterImport
AfterWorker == {"sysadmin", "sysadmin_opened", "identify_sysadmin"} \cup AfterSecurity
AfterMigration ==
    {"worker", "worker_opened", "identify", "truncate", "truncated"} \cup AfterWorker

CredentialInv ==
    /\ \A c \in Credential : Agree(c)
    /\ pc = "worker_opened" => user["worker"] = Absent
    /\ pc = "sysadmin_opened" => user["sysadmin"] = Absent
    /\ pc \in {"truncate", "truncated"} => user["worker"] = secret
    /\ pc \in AfterWorker => Matched("worker")
    /\ pc \in AfterSecurity => Matched("sysadmin")

StageInv ==
    /\ pc \in AfterMigration => \A v \in DOMAIN Text[release] : Recorded(v)
    /\ pc \in AfterImport => Contract[release].keys \subseteq tools /\ HasVersions(Contract[release].keys)
    /\ pc \in {"supervise", "wait", "ready"} => seeded

(* Since /tmp was cleared, heartbeats come from this start.                 *)
ReadyInv ==
    pc \notin {"down", "clear"} =>
        /\ ready => pc = "ready" /\ probed
        /\ beat => probed

InstallerInv == TypeOK /\ LedgerInv /\ CredentialInv /\ StageInv /\ ReadyInv

-----------------------------------------------------------------------------
(* A migration of a release is a sequence of statements and not NoText.     *)
LEMMA TextFacts ==
    ASSUME NEW r \in Release, NEW v \in DOMAIN Text[r]
    PROVE  /\ Text[r][v] \in Seq(Statement)
           /\ v \in Version /\ v \in Nat
           /\ Text[r][v] \in Texts /\ Text[r][v] # NoText
<1>1. Text[r] \in Seq(Seq(Statement))
  BY TextAssumption
<1>2. v \in Nat /\ Text[r][v] \in Seq(Statement)
  BY <1>1
<1>3. v \in Version /\ Text[r][v] \in Texts
  BY DEF Version, Texts
<1> QED
  BY <1>2, <1>3, TextAssumption

(* The version at hand is the only one a step of the loop can be about.     *)
LEMMA ReachedOnce ==
    ASSUME TypeOK,
           NEW v \in DOMAIN Text[release], Reached(v), ledger[v] = NoText,
           NEW w \in DOMAIN Text[release], Reached(w), ledger[w] = NoText
    PROVE  v = w
<1>1. /\ v \in Nat /\ w \in Nat
      /\ Text[release][v] # NoText /\ Text[release][w] # NoText
  BY TextFacts DEF TypeOK
<1>2. ~(v < w) /\ ~(w < v)
  BY <1>1 DEF Reached, Recorded
<1> QED
  BY <1>1, <1>2

(* The initial states satisfy the invariant.                                *)
LEMMA InstallerInit == Init => InstallerInv
<1> SUFFICES ASSUME Init PROVE InstallerInv
  OBVIOUS
<1> USE DEF Init
<1>1. TypeOK
  <2>1. PICK earlier \in BOOLEAN :
          LET old == IF earlier THEN Text[release] ELSE << >>
          IN /\ ledger = [v \in Version |-> IF v = 1 /\ 1 \in DOMAIN old THEN old[1] ELSE NoText]
             /\ schema = IF 1 \in DOMAIN old THEN StatementsOf(old[1]) ELSE {}
             /\ file = [f \in File |-> IF earlier /\ f # "sysadmin" THEN 0 ELSE Absent]
             /\ user \in {[c \in Credential |-> Absent], [c \in Credential |-> file[c]]}
    OBVIOUS
  <2>2. CASE ~earlier
    <3>1. ledger = [v \in Version |-> NoText] /\ schema = {}
      BY <2>1, <2>2
    <3>2. file \in [File -> Nat \cup {Absent, Cut}] /\ user \in [Credential -> Nat \cup {Absent}]
      BY <2>1, <2>2 DEF File, Credential
    <3> QED
      BY <3>1, <3>2 DEF TypeOK, Place
  <2>3. CASE earlier
    <3>1. ledger = [v \in Version |-> IF v = 1 /\ 1 \in DOMAIN Text[release]
                                      THEN Text[release][1] ELSE NoText]
      BY <2>1, <2>3
    <3>2. 1 \in DOMAIN Text[release] =>
              Text[release][1] \in Texts /\ Text[release][1] \in Seq(Statement)
      BY TextFacts
    <3>3. ledger \in [Version -> Texts \cup {NoText}]
      BY <3>1, <3>2
    <3>4. schema \subseteq Statement
      BY <2>1, <2>3, <3>2 DEF StatementsOf
    <3>5. file \in [File -> Nat \cup {Absent, Cut}] /\ user \in [Credential -> Nat \cup {Absent}]
      BY <2>1, <2>3 DEF File, Credential
    <3> QED
      BY <3>3, <3>4, <3>5 DEF TypeOK, Place
  <2> QED
    BY <2>2, <2>3
<1>2. LedgerInv
  <2>1. LedgerCovers
    BY DEF LedgerCovers, NamesIn, StatementsOf
  <2>2. Progress
    BY DEF Progress, Reached
  <2> QED
    BY <2>1, <2>2 DEF LedgerInv
<1>3. CredentialInv
  BY FileAssumption DEF CredentialInv, Agree, Long, File, Credential, AfterWorker, AfterSecurity, AfterImport
<1>4. StageInv /\ ReadyInv
  BY DEF StageInv, ReadyInv, AfterMigration, AfterWorker, AfterSecurity, AfterImport
<1> QED
  BY <1>1, <1>2, <1>3, <1>4 DEF InstallerInv

-----------------------------------------------------------------------------
(* A statement at hand is a statement.                                      *)
LEMMA NextIsStatement ==
    ASSUME TypeOK, NEW v \in DOMAIN Text[release], NEW s, NextIs(v, s)
    PROVE  /\ s \in Statement /\ s = Text[release][v][k + 1]
           /\ k + 1 \in 1 .. Len(Text[release][v])
<1>1. release \in Release /\ k \in Nat
  BY DEF TypeOK
<1>2. Text[release][v] \in Seq(Statement)
  BY <1>1, TextFacts
<1> QED
  BY <1>1, <1>2 DEF NextIs

(* Every step preserves the types.                                          *)
LEMMA TypeStep == TypeOK /\ [Next]_vars => TypeOK'
<1> SUFFICES ASSUME TypeOK, [Next]_vars PROVE TypeOK'
  OBVIOUS
<1> USE DEF TypeOK, Place, catalog, tmp, secrets, migration, process
<1>1. CASE Boot \/ Clear \/ Supervise \/ BecomeReady \/ GiveUp
  <2>1. CASE Boot \/ Clear
    BY <2>1 DEF Boot, Clear
  <2>2. CASE Supervise \/ BecomeReady
    BY <2>2 DEF Supervise, BecomeReady
  <2>3. CASE GiveUp
    BY <2>3 DEF GiveUp
  <2> QED
    BY <1>1, <2>1, <2>2, <2>3
<1>2. CASE Csrf
  BY <1>2 DEF Csrf, Open, Written, File
<1>3. ASSUME NEW v \in DOMAIN Text[release], Apply(v)
      PROVE  TypeOK'
  <2>1. PICK s : NextIs(v, s) /\ (schema' = schema \cup {s} \/ schema' = schema)
    BY <1>3 DEF Apply
  <2>2. schema' \subseteq Statement
    BY <2>1, NextIsStatement
  <2>3. k' = k + 1 /\ UNCHANGED <<release, catalog, tmp, secrets, ledger, process, pc, breaks>>
    BY <1>3 DEF Apply
  <2> QED
    BY <2>2, <2>3
<1>4. ASSUME NEW v \in DOMAIN Text[release], Record(v)
      PROVE  TypeOK'
  <2>1. v \in Version /\ Text[release][v] \in Texts
    BY TextFacts
  <2> QED
    BY <2>1, <1>4 DEF Record
<1>5. CASE Migrate
  BY <1>3, <1>4, <1>5 DEF Migrate, ChecksumChanged, IndexExists, Migrated, Raise
<1>6. CASE ConfigureWorker
  BY <1>6 DEF ConfigureWorker, Open, Written, Unreadable, Raise, Identify, Truncate, File, Credential
<1>7. CASE ConfigureSecurity
  <2>1. CASE IdentifySysAdmin
    BY <2>1 DEF IdentifySysAdmin, File, Credential
  <2> QED
    BY <2>1, <1>7 DEF ConfigureSecurity, Open, Written, Unreadable, Raise, File
<1>8. CASE Import \/ Seed
  <2>1. ASSUME NEW key \in Contract[release].keys, ImportTool(key) PROVE TypeOK'
    <3>1. tools' \subseteq UNION {Contract[r].keys : r \in Release} /\ tools \subseteq tools'
      BY <2>1 DEF ImportTool
    <3> QED
      BY <2>1, <3>1 DEF ImportTool
  <2>2. ASSUME NEW key \in Contract[release].keys, ImportVersion(key) PROVE TypeOK'
    <3>1. VersionOf(key) \in tools \X {Contract[r].hash : r \in Release}
      BY <2>2 DEF ImportVersion, VersionOf
    <3> QED
      BY <2>2, <3>1 DEF ImportVersion
  <2>3. CASE Imported \/ Seed
    BY <2>3 DEF Imported, Seed
  <2> QED
    BY <2>1, <2>2, <2>3, <1>8 DEF Import
<1>9. ASSUME UNCHANGED <<release, ledger, schema, file, catalog, secret, issued>>,
             user' \in [Credential -> Nat \cup {Absent}],
             ready' \in BOOLEAN, beat' \in BOOLEAN, probed' \in BOOLEAN,
             pc' \in Place, k' \in Nat, breaks' \in Nat,
             worker' \in {"none", "spawning", "up"}
      PROVE  TypeOK'
  BY <1>9
<1>10. CASE SpawnWorker
  BY <1>9, <1>10 DEF SpawnWorker
<1>12. CASE Beat
  BY <1>9, <1>12 DEF Beat
<1>13. CASE WorkerExits
  <2>1. breaks' \in Nat
    BY <1>13 DEF WorkerExits
  <2>2. /\ beat' = FALSE /\ worker' = "spawning"
        /\ UNCHANGED <<release, catalog, ready, secrets, migration, probed, pc>>
    BY <1>13 DEF WorkerExits
  <2> QED
    BY <1>9, <2>1, <2>2
<1>14. CASE Restart
  <2>1. breaks' \in Nat
    BY <1>14 DEF Restart
  <2>2. /\ pc' = "down" /\ k' = 0 /\ worker' = "none" /\ probed' = FALSE
        /\ UNCHANGED <<release, catalog, tmp, secrets, ledger, schema>>
    BY <1>14 DEF Restart, Halted
  <2> QED
    BY <1>9, <2>1, <2>2
<1>15. CASE Recreate
  <2>1. /\ UNCHANGED <<ledger, schema, file, catalog, secret, issued>>
        /\ release' \in Release
        /\ user' \in [Credential -> Nat \cup {Absent}]
    BY <1>15 DEF Recreate
  <2>2. /\ tools' \subseteq UNION {Contract[r].keys : r \in Release}
        /\ versions' \subseteq tools' \X {Contract[r].hash : r \in Release}
    BY <2>1
  <2>3. breaks' \in Nat
    BY <1>15 DEF Recreate
  <2>4. /\ ready' = FALSE /\ beat' = FALSE /\ probed' = FALSE
        /\ pc' = "down" /\ k' = 0 /\ worker' = "none"
    BY <1>15 DEF Recreate, Halted
  <2>5. k' \in Nat /\ pc' \in Place
    BY <2>4
  <2> QED
    BY <2>1, <2>2, <2>3, <2>4, <2>5
<1>11. CASE UNCHANGED vars
  BY <1>11 DEF vars
<1> QED
  BY <1>1, <1>2, <1>5, <1>6, <1>7, <1>8, <1>10, <1>11, <1>12, <1>13, <1>14, <1>15
  DEF Next, Startup, Setup

(* Every step preserves what is known of ledger and schema.                 *)
LEMMA LedgerStep == TypeOK /\ LedgerInv /\ [Next]_vars => LedgerInv'
<1> SUFFICES ASSUME TypeOK, LedgerInv, [Next]_vars PROVE LedgerInv'
  OBVIOUS
<1> USE DEF catalog, tmp, secrets, migration, process
<1>1. ASSUME NEW v \in DOMAIN Text[release], Apply(v)
      PROVE  LedgerInv'
  <2>1. PICK s : /\ NextIs(v, s) /\ Exists(s.name)'
                 /\ schema \subseteq schema'
    BY <1>1 DEF Apply, Exists, NamesIn
  <2>2. /\ s = Text[release][v][k + 1] /\ k + 1 \in 1 .. Len(Text[release][v])
        /\ k \in Nat
    BY <2>1, NextIsStatement DEF TypeOK
  <2>3. UNCHANGED <<release, ledger, pc>> /\ k' = k + 1 /\ pc = "migrate"
    BY <1>1, <2>1 DEF Apply, NextIs, Reached
  <2>4. LedgerCovers'
    BY <2>1, <2>3 DEF LedgerInv, LedgerCovers, NamesIn
  <2>5. ASSUME NEW w \in DOMAIN Text[release], Reached(w)', ledger[w] = NoText
        PROVE  /\ k + 1 <= Len(Text[release][w])
               /\ \A i \in 1 .. k + 1 : Exists(Text[release][w][i].name)'
    <3>1. Reached(w) /\ Reached(v) /\ ledger[v] = NoText
      BY <2>5, <2>3, <2>1 DEF Reached, Recorded, NextIs
    <3>2. v = w
      BY <3>1, <2>5, ReachedOnce
    <3>3. \A i \in 1 .. k : Exists(Text[release][v][i].name)
      BY <3>1 DEF LedgerInv, Progress
    <3>4. \A i \in 1 .. k : Exists(Text[release][v][i].name)'
      BY <3>3, <2>1, <2>3 DEF Exists, NamesIn
    <3> QED
      BY <3>2, <3>4, <2>1, <2>2, <2>3
  <2>6. Progress'
    BY <2>3, <2>5 DEF Progress
  <2> QED
    BY <2>4, <2>6 DEF LedgerInv
<1>2. ASSUME NEW v \in DOMAIN Text[release], Record(v)
      PROVE  LedgerInv'
  <2>1. /\ Text[release][v] \in Seq(Statement) /\ v \in Version
        /\ ledger \in [Version -> Texts \cup {NoText}]
    BY TextFacts DEF TypeOK
  <2>2. /\ k = Len(Text[release][v]) /\ ledger' = [ledger EXCEPT ![v] = Text[release][v]]
        /\ k' = 0 /\ UNCHANGED <<schema, release, pc>> /\ pc = "migrate"
    BY <1>2 DEF Record, Reached
  <2>3. \A i \in 1 .. k : Exists(Text[release][v][i].name)
    BY <1>2 DEF Record, LedgerInv, Progress
  <2>4. NamesIn(StatementsOf(Text[release][v])) \subseteq NamesIn(schema)
    BY <2>1, <2>2, <2>3 DEF Exists, NamesIn, StatementsOf
  <2>5. LedgerCovers'
    BY <2>1, <2>2, <2>4 DEF LedgerInv, LedgerCovers, NamesIn
  <2>6. Progress'
    <3>1. \A w \in DOMAIN Text[release] : 0 <= Len(Text[release][w])
      BY TextFacts DEF TypeOK
    <3> QED
      BY <3>1, <2>2 DEF Progress
  <2> QED
    BY <2>5, <2>6 DEF LedgerInv
<1>3. ASSUME UNCHANGED <<ledger, schema>>
      PROVE  LedgerCovers'
  BY <1>3 DEF LedgerInv, LedgerCovers, NamesIn
<1>4. ASSUME UNCHANGED <<ledger, schema, k, release>>, pc' # "migrate",
             pc' \in {"down", "clear", "csrf", "csrf_opened"} => k = 0
      PROVE  LedgerInv'
  BY <1>3, <1>4 DEF LedgerInv, Progress, Reached
<1>5. ASSUME UNCHANGED <<ledger, schema, k, release, pc>>
      PROVE  LedgerInv'
  BY <1>3, <1>5 DEF LedgerInv, Progress, Reached, Recorded, Exists
<1>6. ASSUME UNCHANGED <<ledger, schema, release>>, k' = 0
      PROVE  LedgerInv'
  <2>1. \A w \in DOMAIN Text[release] : 0 <= Len(Text[release][w])
    BY TextFacts DEF TypeOK
  <2>2. Progress'
    BY <1>6, <2>1 DEF Progress
  <2> QED
    BY <1>3, <1>6, <2>2 DEF LedgerInv
<1>7. CASE Boot \/ Clear \/ Supervise \/ BecomeReady \/ GiveUp
  BY <1>4, <1>7 DEF Boot, Clear, Supervise, BecomeReady, GiveUp, LedgerInv, Progress
<1>8. CASE Csrf
  BY <1>6, <1>8 DEF Csrf, Open, Written, LedgerInv, Progress
<1>9. CASE Migrate
  BY <1>1, <1>2, <1>4, <1>9 DEF Migrate, ChecksumChanged, IndexExists, Migrated, Raise
<1>10. CASE ConfigureWorker
  BY <1>4, <1>10 DEF ConfigureWorker, Open, Written, Unreadable, Raise, Identify, Truncate
<1>11. CASE ConfigureSecurity
  BY <1>4, <1>11 DEF ConfigureSecurity, Open, Written, Unreadable, Raise, IdentifySysAdmin
<1>12. CASE Import \/ Seed
  BY <1>4, <1>5, <1>12 DEF Import, ImportTool, ImportVersion, Imported, Seed
<1>13. CASE SpawnWorker \/ Beat \/ WorkerExits
  BY <1>5, <1>13 DEF SpawnWorker, Beat, WorkerExits
<1>14. CASE Restart
  BY <1>6, <1>14 DEF Restart, Halted
<1>15. CASE Recreate
  <2>1. LedgerCovers'
    BY <1>3, <1>15 DEF Recreate
  <2>2. pc' = "down" /\ k' = 0
    BY <1>15 DEF Recreate, Halted
  <2> QED
    BY <2>1, <2>2 DEF LedgerInv, Progress, Reached
<1>16. CASE UNCHANGED vars
  BY <1>5, <1>16 DEF vars
<1> QED
  BY <1>7, <1>8, <1>9, <1>10, <1>11, <1>12, <1>13, <1>14, <1>15, <1>16 DEF Next, Startup, Setup

-----------------------------------------------------------------------------
(* Every step preserves what is known of files and users.                   *)
LEMMA CredentialStep == TypeOK /\ CredentialInv /\ [Next]_vars => CredentialInv'
<1> SUFFICES ASSUME TypeOK, CredentialInv, [Next]_vars PROVE CredentialInv'
  OBVIOUS
<1> USE FileAssumption
    DEF catalog, tmp, secrets, migration, process,
        AfterWorker, AfterSecurity, AfterImport
<1>1. /\ file \in [File -> Nat \cup {Absent, Cut}]
      /\ user \in [Credential -> Nat \cup {Absent}]
      /\ secret \in Nat /\ issued \in Nat
      /\ File = {"csrf", "worker", "sysadmin"} /\ Credential = {"worker", "sysadmin"}
  BY DEF TypeOK, File, Credential
<1>2. ASSUME UNCHANGED <<file, user, secret>>,
             pc' = "worker_opened" => pc = "worker_opened",
             pc' = "sysadmin_opened" => pc = "sysadmin_opened",
             pc' \in {"truncate", "truncated"} => pc \in {"truncate", "truncated"},
             pc' \in AfterWorker => Matched("worker"),
             pc' \in AfterSecurity => Matched("sysadmin")
      PROVE  CredentialInv'
  BY <1>2 DEF CredentialInv, Agree, Matched
<1>3. CASE Boot \/ Clear \/ Supervise \/ BecomeReady \/ GiveUp
  BY <1>2, <1>3 DEF Boot, Clear, Supervise, BecomeReady, GiveUp, CredentialInv
<1>4. CASE Csrf
  BY <1>1, <1>4 DEF Csrf, Open, Written, CredentialInv, Agree, Matched
<1>5. CASE Migrate
  BY <1>2, <1>5 DEF Migrate, ChecksumChanged, Apply, IndexExists, Record, Migrated, Raise,
                    Reached, NextIs
<1>6. CASE ConfigureWorker
  <2>1. CASE Open("worker", "worker", "worker_opened", "identify")
    BY <1>1, <2>1 DEF Open, CredentialInv, Agree, Matched
  <2>2. CASE Written("worker", "worker_opened", "identify")
    BY <1>1, <2>2 DEF Written, CredentialInv, Agree, Matched
  <2>3. CASE Unreadable("worker", "identify")
    BY <1>2, <2>3 DEF Unreadable, Raise
  <2>4. CASE Identify
    <3>1. /\ pc = "identify" /\ file["worker"] \in Nat /\ file' = file
          /\ \A c \in Credential : Agree(c)
          /\ user'["sysadmin"] = user["sysadmin"]
      BY <1>1, <2>4 DEF Identify, CredentialInv
    <3>2. CASE Long(file["worker"])
      <4>1. pc' = "truncate" /\ user'["worker"] = secret'
        BY <1>1, <2>4, <3>2 DEF Identify
      <4>2. \A c \in Credential : Agree(c)'
        BY <1>1, <3>1, <3>2 DEF Agree, Long
      <4> QED
        BY <4>1, <4>2 DEF CredentialInv
    <3>3. CASE ~Long(file["worker"])
      <4>1. /\ pc' = "sysadmin"
            /\ user'["worker"] = IF user["worker"] = Absent THEN file["worker"]
                                 ELSE user["worker"]
        BY <1>1, <2>4, <3>3 DEF Identify
      <4>2. Matched("worker")'
        BY <1>1, <3>1, <3>3, <4>1 DEF Agree, Matched
      <4>3. Agree("worker")'
        BY <4>2 DEF Agree, Matched
      <4>4. Agree("sysadmin")'
        BY <1>1, <3>1 DEF Agree
      <4>5. \A c \in Credential : Agree(c)'
        BY <1>1, <4>3, <4>4 DEF Agree
      <4> QED
        BY <1>1, <4>1, <4>2, <4>3, <4>4, <4>5 DEF CredentialInv
    <3> QED
      BY <3>2, <3>3
  <2>5. CASE Truncate
    BY <1>1, <2>5 DEF Truncate, CredentialInv, Agree, Matched
  <2>6. CASE Written("worker", "truncated", "sysadmin")
    <3>1. /\ pc' = "sysadmin" /\ user' = user /\ user["worker"] = secret
          /\ file'["worker"] = secret /\ file'["sysadmin"] = file["sysadmin"]
          /\ \A c \in Credential : Agree(c)
      BY <1>1, <2>6 DEF Written, CredentialInv
    <3>2. Matched("worker")'
      BY <1>1, <3>1 DEF Matched
    <3>3. Agree("worker")'
      BY <3>2 DEF Agree, Matched
    <3>4. Agree("sysadmin")'
      BY <1>1, <3>1 DEF Agree
    <3>5. \A c \in Credential : Agree(c)'
      BY <1>1, <3>3, <3>4 DEF Agree
    <3> QED
      BY <1>1, <3>1, <3>2, <3>3, <3>4, <3>5 DEF CredentialInv
  <2> QED
    BY <1>6, <2>1, <2>2, <2>3, <2>4, <2>5, <2>6 DEF ConfigureWorker
<1>7. CASE ConfigureSecurity
  <2>1. CASE Open("sysadmin", "sysadmin", "sysadmin_opened", "identify_sysadmin")
    BY <1>1, <2>1 DEF Open, CredentialInv, Agree, Matched
  <2>2. CASE Written("sysadmin", "sysadmin_opened", "identify_sysadmin")
    <3>1. /\ pc' = "identify_sysadmin" /\ user' = user /\ user["sysadmin"] = Absent
          /\ file'["sysadmin"] = secret /\ file'["worker"] = file["worker"]
          /\ Agree("worker") /\ Matched("worker")
      BY <1>1, <2>2 DEF Written, CredentialInv
    <3>2. Matched("worker")' /\ Agree("worker")'
      BY <3>1 DEF Matched, Agree
    <3>3. Agree("sysadmin")'
      BY <1>1, <3>1 DEF Agree
    <3> QED
      BY <1>1, <3>1, <3>2, <3>3 DEF CredentialInv
  <2>3. CASE Unreadable("sysadmin", "identify_sysadmin")
    BY <1>2, <2>3 DEF Unreadable, Raise
  <2>4. CASE IdentifySysAdmin
    <3>1. /\ pc' = "import" /\ file' = file /\ file["sysadmin"] \in Nat
          /\ user'["worker"] = user["worker"]
          /\ user'["sysadmin"] = IF user["sysadmin"] = Absent THEN file["sysadmin"]
                                 ELSE user["sysadmin"]
          /\ Agree("worker") /\ Matched("worker") /\ Agree("sysadmin")
      BY <1>1, <2>4 DEF IdentifySysAdmin, CredentialInv
    <3>2. Matched("worker")' /\ Agree("worker")'
      BY <3>1 DEF Matched, Agree
    <3>3. Matched("sysadmin")'
      BY <1>1, <3>1 DEF Matched, Agree
    <3>4. Agree("sysadmin")'
      BY <3>3 DEF Matched, Agree
    <3>5. \A c \in Credential : Agree(c)'
      BY <1>1, <3>2, <3>4 DEF Agree
    <3> QED
      BY <1>1, <3>1, <3>2, <3>3, <3>4, <3>5 DEF CredentialInv
  <2> QED
    BY <1>7, <2>1, <2>2, <2>3, <2>4 DEF ConfigureSecurity
<1>8. CASE Import \/ Seed
  BY <1>2, <1>8 DEF Import, ImportTool, ImportVersion, Imported, Seed, CredentialInv
<1>9. CASE SpawnWorker \/ Beat \/ WorkerExits
  BY <1>2, <1>9 DEF SpawnWorker, Beat, WorkerExits, CredentialInv
<1>10. CASE Restart
  BY <1>2, <1>10 DEF Restart, Halted
<1>11. CASE Recreate
  BY <1>1, <1>11 DEF Recreate, Halted, CredentialInv, Agree
<1>12. CASE UNCHANGED vars
  BY <1>2, <1>12 DEF vars, CredentialInv
<1> QED
  BY <1>3, <1>4, <1>5, <1>6, <1>7, <1>8, <1>9, <1>10, <1>11, <1>12 DEF Next, Startup, Setup

(* Every step preserves what the stages of setup have achieved.             *)
LEMMA StageStep == TypeOK /\ StageInv /\ [Next]_vars => StageInv'
<1> SUFFICES ASSUME TypeOK, StageInv, [Next]_vars PROVE StageInv'
  OBVIOUS
<1> USE DEF catalog, tmp, secrets, migration, process,
            AfterMigration, AfterWorker, AfterSecurity, AfterImport
<1>1. ASSUME UNCHANGED <<release, ledger, catalog>>,
             pc' \in AfterMigration => pc \in AfterMigration,
             pc' \in AfterImport => pc \in AfterImport,
             pc' \in {"supervise", "wait", "ready"} => pc \in {"supervise", "wait", "ready"}
      PROVE  StageInv'
  BY <1>1 DEF StageInv, Recorded, HasVersions, VersionOf
<1>2. ASSUME pc' \notin AfterMigration
      PROVE  StageInv'
  BY <1>2 DEF StageInv
<1>3. CASE Boot \/ Clear \/ Supervise \/ BecomeReady \/ GiveUp
  BY <1>1, <1>2, <1>3 DEF Boot, Clear, Supervise, BecomeReady, GiveUp
<1>4. CASE Csrf
  BY <1>2, <1>4 DEF Csrf, Open, Written
<1>5. CASE Migrate
  <2>1. CASE Migrated
    BY <2>1 DEF Migrated, StageInv, Recorded
  <2> QED
    BY <1>2, <1>5, <2>1 DEF Migrate, ChecksumChanged, Apply, IndexExists, Record, Raise,
                            Reached, NextIs
<1>6. CASE ConfigureWorker
  BY <1>1, <1>2, <1>6 DEF ConfigureWorker, Open, Written, Unreadable, Raise, Identify, Truncate
<1>7. CASE ConfigureSecurity
  BY <1>1, <1>2, <1>7 DEF ConfigureSecurity, Open, Written, Unreadable, Raise, IdentifySysAdmin
<1>8. CASE Import \/ Seed
  <2>1. CASE Imported \/ Seed
    BY <2>1 DEF Imported, Seed, StageInv, Recorded, HasVersions, VersionOf
  <2>2. CASE pc = "import" /\ UNCHANGED <<pc, release, ledger>>
    BY <2>2 DEF StageInv, Recorded
  <2> QED
    BY <2>1, <2>2, <1>8 DEF Import, ImportTool, ImportVersion
<1>9. CASE SpawnWorker \/ Beat \/ WorkerExits
  BY <1>1, <1>9 DEF SpawnWorker, Beat, WorkerExits
<1>10. CASE Restart \/ Recreate
  BY <1>2, <1>10 DEF Restart, Recreate, Halted
<1>11. CASE UNCHANGED vars
  BY <1>1, <1>11 DEF vars
<1> QED
  BY <1>3, <1>4, <1>5, <1>6, <1>7, <1>8, <1>9, <1>10, <1>11 DEF Next, Startup, Setup

(* Every step preserves what is known of the files below /tmp.              *)
LEMMA ReadyStep == TypeOK /\ ReadyInv /\ [Next]_vars => ReadyInv'
<1> SUFFICES ASSUME TypeOK, ReadyInv, [Next]_vars PROVE ReadyInv'
  OBVIOUS
<1> USE DEF catalog, tmp, secrets, migration, process, ReadyInv
<1>1. ASSUME pc \notin {"down", "clear", "ready"}, UNCHANGED <<tmp, probed>>
      PROVE  ReadyInv'
  BY <1>1
<1>2. CASE Boot \/ Clear \/ BecomeReady
  BY <1>2 DEF Boot, Clear, BecomeReady
<1>3. CASE Supervise \/ GiveUp
  BY <1>1, <1>3 DEF Supervise, GiveUp
<1>4. CASE Csrf
  BY <1>1, <1>4 DEF Csrf, Open, Written
<1>5. CASE Migrate
  BY <1>1, <1>5 DEF Migrate, ChecksumChanged, Apply, IndexExists, Record, Migrated, Raise,
                    Reached, NextIs
<1>6. CASE ConfigureWorker
  BY <1>1, <1>6 DEF ConfigureWorker, Open, Written, Unreadable, Raise, Identify, Truncate
<1>7. CASE ConfigureSecurity
  BY <1>1, <1>7 DEF ConfigureSecurity, Open, Written, Unreadable, Raise, IdentifySysAdmin
<1>8. CASE Import \/ Seed
  BY <1>1, <1>8 DEF Import, ImportTool, ImportVersion, Imported, Seed
<1>9. CASE SpawnWorker \/ Beat \/ WorkerExits
  BY <1>9 DEF SpawnWorker, Beat, WorkerExits
<1>10. CASE Restart \/ Recreate
  BY <1>10 DEF Restart, Recreate, Halted
<1>11. CASE UNCHANGED vars
  BY <1>11 DEF vars
<1> QED
  BY <1>2, <1>3, <1>4, <1>5, <1>6, <1>7, <1>8, <1>9, <1>10, <1>11 DEF Next, Startup, Setup

-----------------------------------------------------------------------------
(* The invariant of every start, whatever came before it.                   *)
THEOREM InstallerInvariant == Spec => []InstallerInv
<1>1. InstallerInv /\ [Next]_vars => InstallerInv'
  BY TypeStep, LedgerStep, CredentialStep, StageStep, ReadyStep DEF InstallerInv
<1> QED
  BY InstallerInit, <1>1, PTL DEF Spec

(* For every set of releases and however many interruptions: the ledger     *)
(* covers the schema, the worker starts over a complete installation only,  *)
(* and readiness is earned by the start that claims it.                     *)
LEMMA InstallerSafety ==
    Spec => [](TypeOK /\ LedgerCovers /\ StartedWhenInstalled /\ ReadyIsEarned)
<1>1. InstallerInv => StartedWhenInstalled
  <2> SUFFICES ASSUME InstallerInv, pc \in {"supervise", "wait", "ready"} PROVE Installed
    BY DEF StartedWhenInstalled
  <2>1. \A c \in Credential : file[c] \in Nat /\ user[c] = file[c]
    BY DEF InstallerInv, CredentialInv, Matched, Credential, AfterWorker, AfterSecurity, AfterImport
  <2>2. /\ \A v \in DOMAIN Text[release] : Recorded(v)
        /\ Contract[release].keys \subseteq tools /\ HasVersions(Contract[release].keys) /\ seeded
    BY DEF InstallerInv, StageInv, AfterMigration, AfterWorker, AfterSecurity, AfterImport
  <2> QED
    BY <2>1, <2>2 DEF Installed
<1>2. InstallerInv => TypeOK /\ LedgerCovers /\ ReadyIsEarned
  BY DEF InstallerInv, LedgerInv, ReadyInv, ReadyIsEarned
<1> QED
  BY InstallerInvariant, <1>1, <1>2, PTL

(* Ledger, schema, files and processes of an installation keep their types. *)
THEOREM InstallerTypes == Spec => []TypeOK
BY InstallerSafety, PTL

(* The ledger covers the schema for every set of releases and however many  *)
(* interruptions.                                                           *)
THEOREM LedgerHolds == Spec => []LedgerCovers
BY InstallerSafety, PTL

(* The worker is only started over a complete installation.                 *)
THEOREM WorkerStartsInstalled == Spec => []StartedWhenInstalled
BY InstallerSafety, PTL

(* Readiness is earned by the start that claims it.                         *)
THEOREM ReadinessIsEarned == Spec => []ReadyIsEarned
BY InstallerSafety, PTL
=============================================================================
