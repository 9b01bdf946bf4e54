--------------------------- MODULE AgentToolsProofs ---------------------------
(****************************************************************************)
(* What holds of AgentTools for every set of contracts, pins and answers.   *)
(*                                                                          *)
(* The argument: the pins of a run were checked against the contract it     *)
(* names (Checked), a running run names the installed contract (Current),   *)
(* and the last request is what the gateway built for it (Built).  What     *)
(* _request_parameters then does to pins and arguments is a matter of       *)
(* functions, and what _input_schema makes of a list of declarations one of *)
(* induction on its length: both are settled in lemmas first.               *)
(****************************************************************************)
EXTENDS AgentTools, TLAPS, NaturalsInduction, WellFoundedInduction

(* A dictionary laid over another.                                          *)
LEMMA Overlay ==
    ASSUME NEW f, NEW g
    PROVE  /\ DOMAIN Over(f, g) = DOMAIN f \cup DOMAIN g
           /\ \A n \in DOMAIN f : Over(f, g)[n] = f[n]
           /\ \A n \in DOMAIN g \ DOMAIN f : Over(f, g)[n] = g[n]
BY DEF Over

(* Every body the schema of a new task admits has the defaulted fields.     *)
LEMMA TaskIsComplete ==
    ASSUME NEW c \in Contracts, TaskCreate \in Operations(c),
           NEW b \in InputSchema(c, TaskCreate).props["body"]
    PROVE  Over(b, TaskDefaults) = b
<1> DEFINE body == Declared(c, TaskCreate).body
<1>1. /\ HasBody(c, TaskCreate) /\ body.full
      /\ DOMAIN TaskDefaults \subseteq DOMAIN body.fields \ {"Settings"}
  BY TaskAssumption
<1>2. InputSchema(c, TaskCreate).props["body"] = BodySchema(TaskCreate, body)
  <2> DEFINE described == Described(c, TaskCreate)
  <2>1. "body" \in DOMAIN described /\ described["body"] = BodySchema(TaskCreate, body)
    BY <1>1 DEF Described
  <2> HIDE DEF described
  <2>2. _remove_examples(described)["body"] = described["body"]
    BY <2>1 DEF _remove_examples
  <2> QED BY <2>1, <2>2 DEF InputSchema, described
<1>3. AllFieldsRequired(TaskCreate, body)
  BY <1>1 DEF AllFieldsRequired, TaskCreate
<1>4. b \in Objects(_remove_examples(body.fields), DOMAIN body.fields \ {"Settings"})
  BY <1>2, <1>3 DEF BodySchema
<1>5. /\ \E S \in SUBSET Fields : b \in [S -> FieldValues]
      /\ DOMAIN TaskDefaults \subseteq DOMAIN b
  <2> HIDE DEF body
  <2> QED BY <1>1, <1>4 DEF Objects
<1> QED BY <1>5 DEF Over

(* A task's body that conforms is sent as it is.                            *)
LEMMA NothingToComplete ==
    ASSUME NEW c \in Contracts, NEW o \in Operations(c), NEW params,
           \E D : params = [n \in D |-> params[n]],
           o = TaskCreate /\ "body" \in DOMAIN params =>
               params["body"] \in InputSchema(c, o).props["body"]
    PROVE  Completed(o, params) = params
BY TaskIsComplete DEF Completed

(* What was accepted when it was saved is in the request, unchanged.        *)
LEMMA PinsPrevail ==
    ASSUME NEW c \in Contracts, NEW o \in Operations(c), NEW fixed, NEW arguments,
           PinAccepted(InputSchema(c, o), fixed)
    PROVE  LET sent == Sent(o, InputSchema(c, o), fixed, arguments)
           IN \A n \in DOMAIN fixed : n \in DOMAIN sent /\ sent[n] = fixed[n]
<1> DEFINE schema == InputSchema(c, o)
           both == Over(fixed, arguments)
           merged == Merged(o, fixed, arguments)
<1>1. \A n \in DOMAIN fixed : n \in DOMAIN both /\ both[n] = fixed[n]
  BY Overlay
<1>2. \A n \in DOMAIN fixed : n \in DOMAIN merged /\ merged[n] = fixed[n]
  <2>1. CASE "body" \in DOMAIN fixed
    <3>1. fixed["body"] \in schema.props["body"]
      BY <2>1 DEF PinAccepted, Conforms
    <3>2. Completed(o, both) = both
      <4>1. \E D : both = [n \in D |-> both[n]]
        BY DEF Over
      <4>2. both["body"] \in InputSchema(c, o).props["body"]
        BY <1>1, <2>1, <3>1
      <4> QED BY <4>1, <4>2, NothingToComplete
    <3> QED BY <1>1, <3>2 DEF Merged
  <2>2. CASE "body" \notin DOMAIN fixed
    BY <1>1, <2>2 DEF Merged, Completed
  <2> QED BY <2>1, <2>2
<1>3. \A n \in DOMAIN merged : /\ n \in DOMAIN WithRows(o, schema, merged)
                              /\ WithRows(o, schema, merged)[n] = merged[n]
  <2> DEFINE rows == [maxRows |-> DefaultRows]
  <2>1. WithRows(o, schema, merged) \in {Over(merged, rows), merged}
    BY DEF WithRows
  <2> HIDE DEF merged, rows, schema
  <2>2. \A n \in DOMAIN merged : /\ n \in DOMAIN Over(merged, rows)
                                /\ Over(merged, rows)[n] = merged[n]
    BY DEF Over
  <2> QED BY <2>1, <2>2
<1> QED BY <1>2, <1>3 DEF Sent

(* What keeps to the offered schema is admitted.                            *)
LEMMA OfferIsKept ==
    ASSUME NEW c \in Contracts, NEW o \in Operations(c), NEW fixed, NEW arguments,
           PinAccepted(InputSchema(c, o), fixed),
           Conforms(Offered(InputSchema(c, o), fixed), arguments)
    PROVE  Admitted(o, InputSchema(c, o), fixed, arguments)
<1> DEFINE schema == InputSchema(c, o)
           both == Over(fixed, arguments)
<1>1. /\ DOMAIN fixed \subseteq DOMAIN schema.props
      /\ \A n \in DOMAIN fixed : fixed[n] \in schema.props[n]
  BY DEF PinAccepted, Conforms, InputSchema
<1>2. /\ DOMAIN arguments \subseteq DOMAIN schema.props \ DOMAIN fixed
      /\ schema.required \ DOMAIN fixed \subseteq DOMAIN arguments
      /\ \A n \in DOMAIN arguments : arguments[n] \in schema.props[n]
  BY DEF Conforms, Offered
<1>3. ~Overrides(fixed, arguments)
  BY <1>2 DEF Overrides
<1>4. Conforms(schema, both)
  <2>1. /\ DOMAIN both = DOMAIN fixed \cup DOMAIN arguments
        /\ \A n \in DOMAIN fixed : both[n] = fixed[n]
        /\ \A n \in DOMAIN arguments \ DOMAIN fixed : both[n] = arguments[n]
    BY Overlay
  <2> HIDE DEF schema, both
  <2>2. \A n \in DOMAIN both : both[n] \in schema.props[n]
    BY <1>1, <1>2, <2>1
  <2>3. DOMAIN both \subseteq DOMAIN schema.props /\ schema.required \subseteq DOMAIN both
    BY <1>1, <1>2, <2>1
  <2> QED BY <2>2, <2>3 DEF Conforms
<1>5. Completed(o, both) = both
  <2>1. \E D : both = [n \in D |-> both[n]]
    BY DEF Over
  <2> QED BY <1>4, <2>1, NothingToComplete DEF Conforms
<1> QED BY <1>3, <1>4, <1>5 DEF Admitted, Merged

(* The number of rows that is added keeps a request within its schema.      *)
LEMMA RowsConform ==
    ASSUME NEW c \in Contracts, Installable(c), NEW o \in Operations(c), NEW params,
           Conforms(InputSchema(c, o), params), RowsInRange(o, InputSchema(c, o), params)
    PROVE  LET sent == WithRows(o, InputSchema(c, o), params)
           IN /\ Conforms(InputSchema(c, o), sent)
              /\ "maxRows" \in DOMAIN sent /\ o[1] = "GET" => sent["maxRows"] \in 1..MaxRows
<1> DEFINE schema == InputSchema(c, o)
           sent == WithRows(o, schema, params)
<1>1. CASE Paged(o, schema)
  <2>1. sent = Over(params, [maxRows |-> DefaultRows])
    BY <1>1 DEF WithRows
  <2>2. /\ DOMAIN sent = DOMAIN params \cup {"maxRows"}
        /\ \A n \in DOMAIN params : sent[n] = params[n]
        /\ "maxRows" \notin DOMAIN params => sent["maxRows"] = DefaultRows
    <3> DEFINE rows == [maxRows |-> DefaultRows]
    <3>1. DOMAIN rows = {"maxRows"} /\ rows["maxRows"] = DefaultRows
      OBVIOUS
    <3> HIDE DEF rows
    <3>2. sent = Over(params, rows)
      BY <2>1 DEF rows
    <3> HIDE DEF sent
    <3> QED BY <3>1, <3>2 DEF Over
  <2>3. DefaultRows \in schema.props["maxRows"] /\ "maxRows" \in DOMAIN schema.props
    BY <1>1, PagedAssumption DEF Paged
  <2>4. sent["maxRows"] \in 1..MaxRows
    BY <1>1 DEF RowsInRange
  <2> HIDE DEF schema, sent
  <2>5. Conforms(schema, params)
    BY DEF schema
  <2>6. Conforms(schema, sent)
    BY <2>2, <2>3, <2>5 DEF Conforms
  <2> QED BY <2>4, <2>6 DEF schema, sent
<1>2. CASE ~Paged(o, schema)
  BY <1>2 DEF WithRows, Paged, Conforms
<1> QED BY <1>1, <1>2

-----------------------------------------------------------------------------
(* The catalog.  What a loop over a list leaves behind is proved by the     *)
(* least number of turns after which it would be wrong.                     *)

(* A set of numbers has a least one.                                        *)
LEMMA LeastNumber ==
    ASSUME NEW T, T \subseteq Nat, T # {}
    PROVE  \E x \in T : \A y \in T : x <= y
<1> DEFINE R == OpToRel(<, Nat)
<1>1. IsWellFoundedOn(R, Nat)
  BY NatLessThanWellFounded
<1>2. \E x \in T : \A y \in T : ~ (<<y, x>> \in R)
  <2> HIDE DEF R
  <2> QED BY <1>1, WFMin
<1>3. PICK x \in T : \A y \in T : ~ (<<y, x>> \in R)
  BY <1>2
<1>4. \A y \in T : ~(y < x)
  BY <1>3 DEF OpToRel
<1> QED BY <1>4

(* The loop of _input_schema, turn by turn: that a function with this       *)
(* recursion exists is part of what is proved.                              *)
LEMMA MergingSteps ==
    ASSUME NEW all, Len(all) \in Nat
    PROVE  /\ Merging(all)[0] = << >>
           /\ \A i \in 1..Len(all) : Merging(all)[i] = Put(Merging(all)[i - 1], all[i])
<1> DEFINE n == Len(all)
           Turn(before, i) == IF i = 0 THEN << >> ELSE Put(before, all[i])
           Solves(g, k) == g = [i \in 0..k |-> Turn(g[i - 1], i)]
           unsolved == {k \in 0..n : ~ \E g : Solves(g, k)}
<1>1. \A b, c : Turn(b, 0) = Turn(c, 0)
  OBVIOUS
<1>2. unsolved = {}
  <2> HIDE DEF n, Turn
  <2> SUFFICES ASSUME unsolved # {} PROVE FALSE
    OBVIOUS
  <2>1. PICK k \in unsolved : \A y \in unsolved : k <= y
    <3>1. unsolved \subseteq Nat
      BY DEF n
    <3> HIDE DEF unsolved
    <3> QED BY <3>1, LeastNumber
  <2>2. k # 0
    <3> SUFFICES ASSUME k = 0 PROVE \E g : Solves(g, k)
      OBVIOUS
    <3> DEFINE g == [i \in 0..0 |-> Turn(0, 0)]
    <3>1. \A i \in 0..0 : Turn(g[i - 1], i) = Turn(0, 0)
      BY <1>1
    <3>2. [i \in 0..0 |-> Turn(g[i - 1], i)] = g
      BY <3>1
    <3> QED BY <3>2
  <2>3. k \in 1..n /\ k - 1 \in 0..n
    BY <2>2 DEF n
  <2> HIDE DEF Solves
  <2>4. PICK g : Solves(g, k - 1)
    BY <2>1, <2>3 DEF n
  <2> USE DEF Solves
  <2> DEFINE h == [i \in 0..k |-> IF i = k THEN Turn(g[k - 1], k) ELSE g[i]]
  <2>5. ASSUME NEW i \in 0..k PROVE h[i] = Turn(h[i - 1], i)
    <3>1. CASE i = k
      BY <3>1, <2>3 DEF n
    <3>2. CASE i \in 1..(k - 1)
      BY <3>2, <2>3, <2>4 DEF n
    <3>3. CASE i = 0
      <4>1. h[0] = Turn(g[0 - 1], 0)
        BY <2>3, <2>4 DEF n
      <4> QED BY <3>3, <4>1, <1>1
    <3> QED BY <3>1, <3>2, <3>3, <2>3 DEF n
  <2>6. Solves(h, k)
    <3>1. h = [i \in 0..k |-> h[i]]
      OBVIOUS
    <3> HIDE DEF h
    <3> QED BY <2>5, <3>1
  <2> QED BY <2>6, <2>1
<1>3. Merging(all) = [i \in 0..n |-> Turn(Merging(all)[i - 1], i)]
  <2>1. \E g : Solves(g, n)
    BY <1>2
  <2>2. Solves(CHOOSE g : Solves(g, n), n)
    <3> HIDE DEF Solves
    <3> QED BY <2>1
  <2>3. Merging(all) = CHOOSE g : Solves(g, n)
    BY DEF Merging
  <2> QED BY <2>2, <2>3
<1>4. \A i \in 0..n : Merging(all)[i] = Turn(Merging(all)[i - 1], i)
  <2> HIDE DEF Turn
  <2> QED BY <1>3
<1> QED BY <1>4

(* What the loop leaves: the last declaration of each identity.             *)
LEMMA LastPrevails ==
    ASSUME NEW all, Len(all) \in Nat
    PROVE  LET merged == Merging(all)[Len(all)]
               whole == {i \in 1..Len(all) : Complete(all[i])}
           IN /\ DOMAIN merged = {Identity(all[i]) : i \in whole}
              /\ \A i \in whole :
                    (\A j \in whole : j > i => Identity(all[j]) # Identity(all[i]))
                        => merged[Identity(all[i])] = all[i]
<1> DEFINE merged(k) == Merging(all)[k]
           whole(k) == {i \in 1..k : Complete(all[i])}
           Latest(k) ==
               /\ DOMAIN merged(k) = {Identity(all[i]) : i \in whole(k)}
               /\ \A i \in whole(k) :
                     (\A j \in whole(k) : j > i => Identity(all[j]) # Identity(all[i]))
                         => merged(k)[Identity(all[i])] = all[i]
           wrong == {k \in 0..Len(all) : ~Latest(k)}
<1> SUFFICES wrong = {}
  BY DEF wrong
<1> SUFFICES ASSUME wrong # {} PROVE FALSE
  OBVIOUS
<1>1. PICK k \in wrong : \A y \in wrong : k <= y
  <2>1. wrong \subseteq Nat
    OBVIOUS
  <2> HIDE DEF wrong
  <2> QED BY <2>1, LeastNumber
<1>2. Latest(0)
  <2>1. merged(0) = << >>
    BY MergingSteps
  <2> QED BY <2>1
<1>3. k \in 1..Len(all) /\ k - 1 \in 0..Len(all) /\ Latest(k - 1)
  <2>1. k # 0
    BY <1>1, <1>2
  <2> HIDE DEF Latest
  <2> QED BY <1>1, <2>1
<1>4. merged(k) = Put(merged(k - 1), all[k])
  BY <1>3, MergingSteps
<1> HIDE DEF merged
<1>5. CASE ~Complete(all[k])
  <2>1. whole(k) = whole(k - 1)
    BY <1>3, <1>5
  <2>2. merged(k) = merged(k - 1)
    BY <1>4, <1>5 DEF Put
  <2> QED BY <2>1, <2>2, <1>1, <1>3
<1>6. CASE Complete(all[k])
  <2>1. whole(k) = whole(k - 1) \cup {k}
    BY <1>3, <1>6
  <2>2. merged(k) = [id \in DOMAIN merged(k - 1) \cup {Identity(all[k])} |->
                        IF id = Identity(all[k]) THEN all[k] ELSE merged(k - 1)[id]]
    BY <1>4, <1>6 DEF Put
  <2>3. /\ DOMAIN merged(k) = DOMAIN merged(k - 1) \cup {Identity(all[k])}
        /\ merged(k)[Identity(all[k])] = all[k]
        /\ \A id \in DOMAIN merged(k - 1) :
              id # Identity(all[k]) => merged(k)[id] = merged(k - 1)[id]
    BY <2>2
  <2>4. DOMAIN merged(k) = {Identity(all[i]) : i \in whole(k)}
    <3> HIDE DEF whole
    <3> QED BY <2>1, <2>3, <1>3
  <2>5. ASSUME NEW i \in whole(k),
               \A j \in whole(k) : j > i => Identity(all[j]) # Identity(all[i])
        PROVE  merged(k)[Identity(all[i])] = all[i]
    <3>1. CASE i = k
      BY <3>1, <2>3
    <3>2. CASE i # k
      <4>1. i \in whole(k - 1) /\ k > i /\ k \in whole(k)
        BY <3>2, <2>1, <1>3
      <4>2. \A j \in whole(k - 1) : j > i => Identity(all[j]) # Identity(all[i])
        BY <2>1, <2>5
      <4>3. merged(k - 1)[Identity(all[i])] = all[i]
        BY <4>1, <4>2, <1>3
      <4>4. Identity(all[i]) # Identity(all[k])
        BY <4>1, <2>5
      <4>5. Identity(all[i]) \in DOMAIN merged(k - 1)
        BY <4>1, <1>3
      <4> QED BY <4>3, <4>4, <4>5, <2>3
    <3> QED BY <3>1, <3>2
  <2> QED BY <2>4, <2>5, <1>1
<1> QED BY <1>5, <1>6

(* The declarations of an operation are a list.                             *)
LEMMA ParametersList ==
    ASSUME NEW c \in Contracts, NEW o \in Operations(c)
    PROVE  /\ Len(Parameters(c, o)) \in Nat
           /\ DOMAIN Parameters(c, o) = 1..Len(Parameters(c, o))
<1> DEFINE document == Document[c]
           Names(p) == p[1] \in CONTRACT_METHODS /\ <<Upper[p[1]], p[2]>> = o
           chosen == CHOOSE p \in DOMAIN document.operations : Names(p)
           all == document.shared[o[2]] \o Declared(c, o).own
<1>1. chosen \in DOMAIN document.operations /\ o[2] = chosen[2]
  <2>1. \E p \in DOMAIN document.operations : Names(p)
    BY DEF Operations
  <2>2. Names(chosen) /\ chosen \in DOMAIN document.operations
    <3> HIDE DEF Names
    <3> QED BY <2>1
  <2> HIDE DEF chosen
  <2> QED BY <2>2
<1>2. Declared(c, o) = document.operations[chosen]
  BY DEF Declared
<1> HIDE DEF chosen
<1>3. /\ document.shared[o[2]] \in Seq(AllDeclarations(document))
      /\ Declared(c, o).own \in Seq(AllDeclarations(document))
  BY <1>1, <1>2, ListsAssumption
<1>4. all \in Seq(AllDeclarations(document))
  BY <1>3
<1>5. Len(all) \in Nat /\ DOMAIN all = 1..Len(all)
  <2> HIDE DEF all
  <2> QED BY <1>4
<1>6. Parameters(c, o) = [i \in 1..Len(all) |-> resolve(all[i], c)]
  BY <1>5 DEF Parameters
<1> HIDE DEF all
<1>7. Len(Parameters(c, o)) = Len(all)
  BY <1>5, <1>6
<1> QED BY <1>5, <1>6, <1>7

(* What an annotation's name takes away.                                    *)
LEMMA ExamplesGo ==
    ASSUME NEW described
    PROVE  /\ DOMAIN _remove_examples(described) = DOMAIN described \ {"example", "default"}
           /\ \A n \in DOMAIN described \ {"example", "default"} :
                 _remove_examples(described)[n] = described[n]
BY DEF _remove_examples

(* The schema of an operation, read off its declarations.                   *)
LEMMA SchemaOfLast ==
    ASSUME NEW c \in Contracts, NEW o \in Operations(c)
    PROVE  Reflects(c, o, InputSchema(c, o), Supported(c, o))
<1> DEFINE all == Parameters(c, o)
           whole == {i \in DOMAIN all : Complete(all[i])}
           Final(i) == \A j \in whole : j > i => Identity(all[j]) # Identity(all[i])
           last == {i \in whole : Final(i)}
           asked == {i \in last : all[i]["in"] = "query" /\ all[i].values # NoSchema}
           merged == MergedParameters(c, o)
           body == Declared(c, o).body
           taken == IF HasBody(c, o) THEN {"body"} ELSE {}
           lost == {"example", "default"}
           names == Queried(c, o)
           described == Described(c, o)
           schema == InputSchema(c, o)
<1>1. /\ DOMAIN merged = {Identity(all[i]) : i \in whole}
      /\ \A i \in whole : Final(i) => merged[Identity(all[i])] = all[i]
      /\ Len(all) \in Nat /\ DOMAIN all = 1..Len(all)
  BY ParametersList, LastPrevails DEF MergedParameters
<1>2. \A i : /\ Identity(all[i])[1] = all[i]["in"] /\ Identity(all[i])[2] = all[i].name
             /\ Identity(all[i]) = <<all[i]["in"], all[i].name>>
  BY DEF Identity
<1>3. ASSUME NEW i \in whole PROVE \E j \in whole : Identity(all[j]) = Identity(all[i]) /\ Final(j)
  <2> DEFINE Distance == {Len(all) - j : j \in {x \in whole : Identity(all[x]) = Identity(all[i])}}
  <2> HIDE DEF all
  <2>1. Distance \subseteq Nat /\ Distance # {}
    BY <1>1, <1>3
  <2> HIDE DEF Distance
  <2>2. PICK d \in Distance : \A y \in Distance : d <= y
    BY <2>1, LeastNumber
  <2> USE DEF Distance
  <2>3. PICK j \in whole : Identity(all[j]) = Identity(all[i]) /\ d = Len(all) - j
    OBVIOUS
  <2>4. ASSUME NEW x \in whole, Identity(all[x]) = Identity(all[j]) PROVE x <= j
    <3>1. Len(all) - x \in Distance
      BY <2>3, <2>4
    <3>2. Len(all) - j <= Len(all) - x
      BY <3>1, <2>2, <2>3
    <3> QED BY <3>2, <1>1
  <2>5. Final(j)
    BY <2>4, <1>1
  <2> QED BY <2>3, <2>5
<1>4. names = {all[i].name : i \in asked}
  <2> HIDE DEF all, merged, names, Final
  <2>1. \A n : n \in names <=>
            <<"query", n>> \in DOMAIN merged /\ merged[<<"query", n>>].values # NoSchema
    BY DEF names, Queried, merged
  <2>2. ASSUME NEW n \in names PROVE n \in {all[i].name : i \in asked}
    <3>1. PICK i \in whole : Identity(all[i]) = <<"query", n>>
      BY <1>1, <2>1, <2>2
    <3>2. PICK j \in whole : Identity(all[j]) = Identity(all[i]) /\ Final(j)
      BY <1>3
    <3>3. merged[<<"query", n>>] = all[j]
      BY <1>1, <3>1, <3>2
    <3>4. all[j].name = n /\ all[j]["in"] = "query"
      BY <3>1, <3>2, <1>2
    <3>5. j \in asked
      BY <2>1, <2>2, <3>2, <3>3, <3>4
    <3> QED BY <3>4, <3>5
  <2>3. ASSUME NEW i \in asked PROVE all[i].name \in names
    <3>1. Identity(all[i]) = <<"query", all[i].name>>
      BY <1>2
    <3> QED BY <3>1, <1>1, <2>1
  <2> QED BY <2>2, <2>3
<1>5. \A i \in asked : merged[<<"query", all[i].name>>] = all[i]
  BY <1>1, <1>2
<1>6. /\ DOMAIN described = names \cup taken
      /\ \A n \in names \ taken : described[n] = merged[<<"query", n>>].values
      /\ \A n \in names \ taken :
            n \in schema.required <=> merged[<<"query", n>>].required
  <2>1. CASE HasBody(c, o)
    <3> HIDE DEF merged, names
    <3>1. described = [n \in names \cup {"body"} |->
                         IF n = "body" THEN BodySchema(o, body) ELSE merged[<<"query", n>>].values]
      BY <2>1 DEF Described, merged, names
    <3>2. schema.required = {n \in names : merged[<<"query", n>>].required}
                            \cup {n \in {"body"} : body.needed \/ AllFieldsRequired(o, body)}
      BY <2>1 DEF InputSchema, Required, merged, names
    <3> HIDE DEF described, schema, body
    <3> QED BY <2>1, <3>1, <3>2
  <2>2. CASE ~HasBody(c, o)
    <3> HIDE DEF merged, names
    <3>1. described = [n \in names |-> merged[<<"query", n>>].values]
      BY <2>2 DEF Described, merged, names
    <3>2. schema.required = {n \in names : merged[<<"query", n>>].required}
      BY <2>2 DEF InputSchema, Required, merged, names
    <3> HIDE DEF described, schema
    <3> QED BY <2>2, <3>1, <3>2
  <2> QED BY <2>1, <2>2
<1>7. /\ DOMAIN schema.props = DOMAIN described \ lost
      /\ \A n \in DOMAIN described \ lost : schema.props[n] = described[n]
  <2>1. schema.props = _remove_examples(described)
    BY DEF InputSchema
  <2> HIDE DEF schema, described
  <2> QED BY <2>1, ExamplesGo
<1>8. ASSUME NEW i \in asked, all[i].name \notin taken
      PROVE  /\ all[i].name \notin lost => schema.props[all[i].name] = all[i].values
             /\ all[i].name \in schema.required <=> all[i].required
  <2>1. all[i].name \in names \ taken
    BY <1>4, <1>8
  <2> HIDE DEF names, taken, lost, schema, described, all, merged, asked
  <2> QED BY <2>1, <1>5, <1>6, <1>7, <1>8
<1>9. ASSUME Supported(c, o)
      PROVE  /\ DOMAIN all = whole /\ last = asked /\ o[2] \notin Templated
             /\ body # NoBody => "body" \in DOMAIN schema.props
  <2>1. /\ \A i \in DOMAIN all : Complete(all[i])
        /\ \A id \in DOMAIN merged : id[1] = "query" /\ merged[id].values # NoSchema
        /\ o[2] \notin Templated
        /\ body = NoBody \/ HasBody(c, o)
    BY <1>9 DEF Supported
  <2>2. ASSUME NEW i \in last PROVE i \in asked
    <3>1. Identity(all[i]) \in DOMAIN merged /\ merged[Identity(all[i])] = all[i]
      BY <1>1
    <3> HIDE DEF all, merged
    <3> QED BY <2>1, <3>1, <1>2
  <2>3. body # NoBody => "body" \in DOMAIN schema.props
    BY <2>1, <1>6, <1>7
  <2> QED BY <2>1, <2>2, <2>3
<1> HIDE DEF names, schema, all, merged, described
<1>10. DOMAIN schema.props = ({all[i].name : i \in asked} \cup taken) \ lost
  BY <1>4, <1>6, <1>7
<1> QED BY <1>8, <1>9, <1>10 DEF Reflects, schema, all

-----------------------------------------------------------------------------
(* The inductive invariant.                                                 *)

Installed ==
    /\ release \in Contracts /\ Installable(release)
    /\ catalog = CatalogOf(release)

(* A binding pins what its contract admits.                                 *)
Fits(binding) ==
    /\ binding.contract \in Contracts
    /\ binding.op \in Operations(binding.contract)
    /\ PinAccepted(InputSchema(binding.contract, binding.op), binding.fixed)

Checked ==
    /\ agent # NoAgent /\ agent.contract # Unversioned => Fits(agent)
    /\ run # NoRun => /\ {"op", "fixed", "contract", "checked", "phase"} \subseteq DOMAIN run
                      /\ run.checked => Fits(run)

Current ==
    run # NoRun /\ run.phase = "RUNNING" =>
        run.contract = release /\ run.op \in Operations(release)

Built ==
    request # NoRequest =>
        /\ run # NoRun /\ run.phase = "RUNNING"
        /\ \E arguments \in Arguments :
              /\ Accepted(run.op, InputSchema(release, run.op), run.fixed, arguments)
              /\ request = [contract |-> release, op |-> run.op,
                            params |-> Sent(run.op, InputSchema(release, run.op), run.fixed,
                                            arguments)]

Inv == TypeOK /\ Installed /\ Checked /\ Current /\ Built

LEMMA Entries ==
    ASSUME Installed
    PROVE  /\ DOMAIN catalog = Operations(release)
           /\ \A o \in Operations(release) :
                 /\ Schema(o) = InputSchema(release, o)
                 /\ catalog[o].supported = Supported(release, o)
BY DEF Installed, CatalogOf, Schema

LEMMA InitInv == Init => Inv
<1> SUFFICES ASSUME Init PROVE Inv
  OBVIOUS
<1>1. agent = NoAgent \/ (agent.fixed \in Legacy /\ agent.contract = Unversioned)
  BY DEF Init
<1> QED BY <1>1 DEF Init, Inv, TypeOK, Installed, Checked, Current, Built

LEMMA DecideInv == ASSUME Inv, NEW o \in DOMAIN catalog, Decide(o) PROVE Inv'
<1>1. \A key \in enabled' : key[1] \in Contracts /\ key \in Imported(key[1])
  BY DEF Decide, Inv, TypeOK, StableKey
<1> QED BY <1>1 DEF Decide, Inv, TypeOK, Installed, Checked, Fits, Current, Built

LEMMA SaveInv == ASSUME Inv, NEW o \in DOMAIN catalog, NEW fixed \in Pins, Save(o, fixed) PROVE Inv'
<1>1. Fits(agent)'
  <2>1. o \in Operations(release) /\ Schema(o) = InputSchema(release, o) /\ release \in Contracts
    BY Entries DEF Inv, Installed
  <2> QED BY <2>1 DEF Save, Fits
<1>2. TypeOK'
  BY DEF Save, Inv, TypeOK
<1> QED BY <1>1, <1>2 DEF Save, Inv, Installed, Checked, Fits, Current, Built

LEMMA EnqueueInv == ASSUME Inv, Enqueue PROVE Inv'
<1>1. run'.checked => Fits(run)'
  BY DEF Enqueue, BoundContract, Inv, Checked, Fits
<1>2. TypeOK'
  BY DEF Enqueue, BoundContract, Inv, TypeOK
<1> QED BY <1>1, <1>2 DEF Enqueue, Inv, Installed, Checked, Fits, Current, Built

LEMMA EndedInv ==
    ASSUME Inv, Ended, UNCHANGED <<release, catalog, enabled, agent>>
    PROVE  Inv'
BY DEF Ended, Inv, TypeOK, Installed, Checked, Fits, Current, Built

LEMMA StartInv == ASSUME Inv, Start PROVE Inv'
<1>1. CASE Admissible
  <2>1. /\ run' = [run EXCEPT !.phase = "RUNNING"]
        /\ UNCHANGED <<release, catalog, enabled, agent, request>>
        /\ run # NoRun /\ run.phase = "QUEUED"
    BY <1>1 DEF Start
  <2>2. /\ DOMAIN run' = DOMAIN run /\ run'.phase = "RUNNING"
        /\ run'.op = run.op /\ run'.fixed = run.fixed
        /\ run'.contract = run.contract /\ run'.checked = run.checked
    BY <2>1 DEF Inv, Checked
  <2>3. run.contract = release /\ run.op \in Operations(release)
    BY <1>1, Entries DEF Admissible, Allowed, Usable, Inv
  <2>4. request' = NoRequest
    BY <2>1 DEF Inv, Built
  <2>5. TypeOK'
    BY <2>1, <2>2, <2>4 DEF Inv, TypeOK
  <2> QED BY <2>1, <2>2, <2>3, <2>4, <2>5 DEF Inv, Installed, Checked, Fits, Current, Built
<1>2. CASE ~Admissible
  BY <1>2, EndedInv DEF Start
<1> QED BY <1>1, <1>2

LEMMA CallInv == ASSUME Inv, NEW arguments \in Arguments, Call(arguments) PROVE Inv'
<1>1. Schema(run.op) = InputSchema(release, run.op)
  BY Entries DEF Call, Allowed, Usable, Inv
<1>2. Built'
  BY <1>1 DEF Call, Built
<1> QED BY <1>2 DEF Call, Inv, TypeOK, Installed, Checked, Fits, Current

LEMMA UpgradeInv ==
    ASSUME Inv, NEW contract \in Upgrades, contract \in Contracts, Upgrade(contract)
    PROVE  Inv'
<1>1. Installed'
  BY DEF Upgrade, Installed
<1>2. CASE run # NoRun /\ run.phase = "RUNNING"
  BY <1>1, <1>2 DEF Upgrade, Ended, Inv, TypeOK, Installed, Checked, Fits, Current, Built
<1>3. CASE ~(run # NoRun /\ run.phase = "RUNNING")
  BY <1>1, <1>3 DEF Upgrade, Inv, TypeOK, Installed, Checked, Fits, Current, Built
<1> QED BY <1>2, <1>3

LEMMA NextInv == Inv /\ [Next]_vars => Inv'
<1> SUFFICES ASSUME Inv, [Next]_vars PROVE Inv'
  OBVIOUS
<1>1. ASSUME NEW o \in DOMAIN catalog, Decide(o) PROVE Inv'
  BY <1>1, DecideInv
<1>2. ASSUME NEW o \in DOMAIN catalog, NEW fixed \in Pins, Save(o, fixed) PROVE Inv'
  BY <1>2, SaveInv
<1>3. CASE Enqueue
  BY <1>3, EnqueueInv
<1>4. CASE Start
  BY <1>4, StartInv
<1>5. CASE Finish
  BY <1>5, EndedInv DEF Finish
<1>6. ASSUME NEW arguments \in Arguments, Call(arguments) PROVE Inv'
  BY <1>6, CallInv
<1>7. ASSUME NEW contract \in Upgrades, Upgrade(contract) PROVE Inv'
  BY <1>7, UpgradeInv, UpgradesAssumption
<1>8. CASE UNCHANGED vars
  BY <1>8 DEF vars, Inv, TypeOK, Installed, Checked, Fits, Current, Built
<1> QED BY <1>1, <1>2, <1>3, <1>4, <1>5, <1>6, <1>7, <1>8 DEF Next

LEMMA Invariant == Spec => []Inv
<1>1. Init => Inv
  BY InitInv
<1>2. Inv /\ [Next]_vars => Inv'
  BY NextInv
<1> QED BY <1>1, <1>2, PTL DEF Spec

-----------------------------------------------------------------------------
(* The theorems.                                                            *)

(* Whatever contracts are installed and whoever acts, the state is one the  *)
(* services can be in; a run always names the contract it is bound to.      *)
THEOREM ToolTypes == Spec => []TypeOK
<1>1. Inv => TypeOK
  BY DEF Inv
<1> QED BY <1>1, Invariant, PTL

(* For every contract, pin and answer, a request carries what was pinned.   *)
THEOREM PinsReachTheTarget == Spec => []PinsAreSent
<1>1. Inv => PinsAreSent
  <2> SUFFICES ASSUME Inv, request # NoRequest, run.checked
               PROVE  \A n \in DOMAIN run.fixed :
                          n \in DOMAIN request.params /\ request.params[n] = run.fixed[n]
    BY DEF PinsAreSent
  <2>1. /\ run.contract = release /\ run.op \in Operations(release) /\ release \in Contracts
        /\ PinAccepted(InputSchema(release, run.op), run.fixed)
    BY DEF Inv, Installed, Checked, Fits, Current, Built
  <2>2. PICK arguments \in Arguments :
            request.params = Sent(run.op, InputSchema(release, run.op), run.fixed, arguments)
    BY DEF Inv, Built
  <2> QED BY <2>1, <2>2, PinsPrevail
<1> QED BY <1>1, Invariant, PTL

(* For every contract whose paged queries admit the default number of rows: *)
(* what is sent conforms to it, and no upgrade, edit or delay lets a run    *)
(* call another version of its tool.                                        *)
THEOREM RequestsConform == Spec => []SentConforms
<1>1. Inv => SentConforms
  <2> SUFFICES ASSUME Inv, request # NoRequest PROVE SentConforms
    BY DEF SentConforms
  <2>1. /\ run.op \in Operations(release) /\ release \in Contracts /\ Installable(release)
        /\ Schema(run.op) = InputSchema(release, run.op)
    BY Entries DEF Inv, Installed, Current, Built
  <2> DEFINE schema == InputSchema(release, run.op)
  <2>2. PICK arguments \in Arguments :
            /\ Accepted(run.op, schema, run.fixed, arguments)
            /\ request.op = run.op
            /\ request.params = WithRows(run.op, schema, Merged(run.op, run.fixed, arguments))
    BY DEF Inv, Built, Sent
  <2>3. /\ Conforms(schema, Merged(run.op, run.fixed, arguments))
        /\ RowsInRange(run.op, schema, Merged(run.op, run.fixed, arguments))
    BY <2>2 DEF Accepted, Admitted
  <2>4. request.contract = run.contract
    BY DEF Inv, Current, Built
  <2> QED BY <2>1, <2>2, <2>3, <2>4, RowsConform DEF SentConforms
<1> QED BY <1>1, Invariant, PTL

(* For every contract and pins, the schema a model is offered is honest.    *)
THEOREM OffersAreHonest == Spec => []OfferedIsAccepted
<1>1. Inv => OfferedIsAccepted
  <2> SUFFICES ASSUME Inv, run # NoRun, run.phase = "RUNNING", run.checked,
                      NEW arguments \in Arguments,
                      Conforms(Offered(Schema(run.op), run.fixed), arguments)
               PROVE  Admitted(run.op, Schema(run.op), run.fixed, arguments)
    BY DEF OfferedIsAccepted
  <2>1. /\ run.op \in Operations(release) /\ release \in Contracts
        /\ Schema(run.op) = InputSchema(release, run.op)
        /\ PinAccepted(InputSchema(release, run.op), run.fixed)
    BY Entries DEF Inv, Installed, Checked, Fits, Current
  <2> QED BY <2>1, OfferIsKept
<1> QED BY <1>1, Invariant, PTL

(* For every contract, however many declarations its routes and operations *)
(* have and whatever they refer to, the last one of a query parameter is    *)
(* what the catalog offers, and what the gateway could not send is not      *)
(* supported.                                                               *)
THEOREM CatalogFollowsContract == Spec => []CatalogIsContract
<1>1. Inv => CatalogIsContract
  <2> SUFFICES ASSUME Inv PROVE CatalogIsContract
    OBVIOUS
  <2>1. release \in Contracts
    BY DEF Inv, Installed
  <2>2. \A o \in DOMAIN catalog :
            /\ o \in Operations(release)
            /\ Schema(o) = InputSchema(release, o)
            /\ catalog[o].supported = Supported(release, o)
    BY Entries DEF Inv
  <2> QED BY <2>1, <2>2, SchemaOfLast DEF CatalogIsContract
<1> QED BY <1>1, Invariant, PTL
=============================================================================
