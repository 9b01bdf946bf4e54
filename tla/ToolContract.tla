----------------------------- MODULE ToolContract -----------------------------
(****************************************************************************)
(* From a contract to the catalog of operations an agent can be given:      *)
(* app/mvp/catalog.py, and app/tools/importer.py, which gives each          *)
(* operation its row in the registry.                                       *)
(*                                                                          *)
(* A document is what the JSON text says about input:                       *)
(*   components   a declaration for each name that can be referred to       *)
(*   shared       the parameters all operations of a route declare          *)
(*   operations   own parameters, body and field names of the answers, for  *)
(*                each <<method, route>>                                    *)
(*   reviewed     the operations its manifest lists as READ_ONLY            *)
(* A declaration is a reference [ref] or a parameter [in, name, values,     *)
(* required], where `values` stands for its JSON schema: the values it      *)
(* admits, or NoSchema when it is no object.  A body has the `fields` its   *)
(* schema for application/json names, with the values of each, or NoSchema  *)
(* when it has no such schema.  A contract is known by the SHA-256 digest   *)
(* of its document, an operation by its method and its route, which make    *)
(* its key.                                                                 *)
(****************************************************************************)
EXTENDS Integers, Sequences, SequencesExt

CONSTANTS
    Contracts,   \* digests of the documents images may ship
    Document,    \* the document with each digest
    Templated,   \* routes with a brace in them
    NoBody,      \* of an operation without request body
    NoSchema,    \* of an input without a schema that is an object
    Unresolved,  \* what resolve() raises for a reference it cannot follow
    Fields,      \* fields a request body may have
    FieldValues, \* what a client may put into a field
    Sensitive    \* names SENSITIVE_FIELD matches

(* str.upper                                                                *)
Upper ==
    [get |-> "GET", post |-> "POST", put |-> "PUT", delete |-> "DELETE", head |-> "HEAD",
     patch |-> "PATCH", options |-> "OPTIONS", trace |-> "TRACE"]

SUPPORTED_METHODS == {"GET", "POST", "PUT", "DELETE", "HEAD"}

CONTRACT_METHODS == {"get", "post", "put", "patch", "delete", "head", "options", "trace"}

(* Of the keys of a path item the catalog takes those that are methods.     *)
Operations(contract) ==
    {<<Upper[p[1]], p[2]>> :
        p \in {q \in DOMAIN Document[contract].operations : q[1] \in CONTRACT_METHODS}}

Declared(contract, o) ==
    LET operations == Document[contract].operations
    IN operations[CHOOSE p \in DOMAIN operations :
                      p[1] \in CONTRACT_METHODS /\ <<Upper[p[1]], p[2]>> = o]

StableKey(contract, o) == <<contract, o[1], o[2]>>

-----------------------------------------------------------------------------
(* References.                                                              *)

IsRef(declaration) == "ref" \in DOMAIN declaration

(* resolve(): a chain of references that meets itself is refused.           *)
resolve(declaration, contract) ==
    LET components == Document[contract].components
        follow[d \in {declaration} \cup Range(components), seen \in SUBSET DOMAIN components] ==
            IF ~IsRef(d) THEN d
            ELSE IF d.ref \in seen THEN Unresolved
            ELSE follow[components[d.ref], seen \cup {d.ref}]
    IN follow[declaration, {}]

AllDeclarations(document) ==
    UNION {Range(declarations) : declarations \in Range(document.shared)}
    \cup UNION {Range(operation.own) : operation \in Range(document.operations)}
    \cup Range(document.components)

(* _validate_refs: every reference has a target; chains are not followed.   *)
RefsResolve(contract) ==
    \A d \in AllDeclarations(Document[contract]) :
        IsRef(d) => d.ref \in DOMAIN Document[contract].components

(* `parameters` is a list in JSON, of a route as of an operation.           *)
ASSUME ListsAssumption ==
    \A c \in Contracts :
        LET document == Document[c]
        IN \A p \in DOMAIN document.operations :
              /\ document.shared[p[2]] \in Seq(AllDeclarations(document))
              /\ document.operations[p].own \in Seq(AllDeclarations(document))

-----------------------------------------------------------------------------
(* _input_schema                                                            *)

Parameters(contract, o) ==
    LET all == Document[contract].shared[o[2]] \o Declared(contract, o).own
    IN [i \in DOMAIN all |-> resolve(all[i], contract)]

(* Without `in` or `name` a declaration is no parameter.                    *)
Complete(parameter) == {"in", "name"} \subseteq DOMAIN parameter

Identity(parameter) == <<parameter["in"], parameter.name>>

(* Mutant: what the route declares prevails over what the operation says.   *)
PutOnce(merged, p) ==
    IF ~Complete(p) THEN merged
    ELSE [id \in DOMAIN merged \cup {Identity(p)} |->
             IF id \in DOMAIN merged THEN merged[id] ELSE p]

(* parameters[(in, name)] = parameter: a later declaration replaces an      *)
(* earlier one.                                                             *)
Put(merged, p) ==
    IF ~Complete(p) THEN merged
    ELSE [id \in DOMAIN merged \cup {Identity(p)} |->
             IF id = Identity(p) THEN p ELSE merged[id]]

(* The dictionary `parameters`, after each turn of the loop and at its end. *)
Merging(all) ==
    LET merged[i \in 0..Len(all)] == IF i = 0 THEN << >> ELSE Put(merged[i - 1], all[i])
    IN merged

MergedParameters(contract, o) ==
    Merging(Parameters(contract, o))[Len(Parameters(contract, o))]

(* _remove_examples, of what describes some names: annotations go, and so   *)
(* does whatever is named like one.  A list of required names keeps it.     *)
_remove_examples(described) ==
    [n \in DOMAIN described \ {"example", "default"} |-> described[n]]

(* The objects a JSON schema with these fields admits.                      *)
Objects(fields, required) ==
    {b \in UNION {[S -> FieldValues] : S \in SUBSET Fields} :
        /\ required \subseteq DOMAIN b
        /\ \A f \in DOMAIN b \cap DOMAIN fields : b[f] \in fields[f]}

(* "All fields are required in the request body of a POST request [...]     *)
(* except for the Settings field": the contract says so in words only.      *)
AllFieldsRequired(o, body) == o[1] = "POST" /\ body.full

BodySchema(o, body) ==
    Objects(_remove_examples(body.fields),
            IF AllFieldsRequired(o, body) THEN DOMAIN body.fields \ {"Settings"} ELSE body.required)

HasBody(contract, o) ==
    LET body == Declared(contract, o).body IN body # NoBody /\ body.fields # NoSchema

(* What the second loop keeps: query parameters whose schema is an object.  *)
Queried(contract, o) ==
    LET merged == MergedParameters(contract, o)
    IN {n \in {id[2] : id \in DOMAIN merged} :
           <<"query", n>> \in DOMAIN merged /\ merged[<<"query", n>>].values # NoSchema}

(* Both names are read before examples are removed.                         *)
Described(contract, o) ==
    LET merged == MergedParameters(contract, o)
        body == Declared(contract, o).body
    IN [n \in Queried(contract, o) \cup {m \in {"body"} : HasBody(contract, o)} |->
           IF n = "body" /\ HasBody(contract, o) THEN BodySchema(o, body)
           ELSE merged[<<"query", n>>].values]

Required(contract, o) ==
    LET merged == MergedParameters(contract, o)
        body == Declared(contract, o).body
    IN {n \in Queried(contract, o) : merged[<<"query", n>>].required}
       \cup {n \in {"body"} : /\ HasBody(contract, o)
                              /\ body.needed \/ AllFieldsRequired(o, body)}

InputSchema(contract, o) ==
    [props |-> _remove_examples(Described(contract, o)), required |-> Required(contract, o)]

Supported(contract, o) ==
    LET all == Parameters(contract, o)
        merged == MergedParameters(contract, o)
    IN /\ o[1] \in SUPPORTED_METHODS
       /\ o[2] \notin Templated
       /\ \A i \in DOMAIN all : Complete(all[i])
       /\ \A id \in DOMAIN merged : id[1] = "query" /\ merged[id].values # NoSchema
       /\ Declared(contract, o).body = NoBody \/ HasBody(contract, o)

(* _contains_sensitive_fields, over the request, examples included, and the *)
(* responses.                                                               *)
IsSensitive(contract, o) ==
    LET operation == Declared(contract, o)
    IN \/ DOMAIN Described(contract, o) \cap Sensitive # {}
       \/ HasBody(contract, o) /\ DOMAIN operation.body.fields \cap Sensitive # {}
       \/ operation.answers \cap Sensitive # {}

-----------------------------------------------------------------------------
(* Which documents get into service.                                        *)

(* The importer's own table.                                                *)
HTTP_METHODS == {"get", "put", "post", "delete", "patch", "head", "options", "trace"}

(* load_contract: the stable keys that get a row in AI_TOOL_VERSION.        *)
Imported(contract) ==
    {<<contract, Upper[p[1]], p[2]>> :
        p \in {q \in DOMAIN Document[contract].operations : q[1] \in HTTP_METHODS}}

(* load_reviewed_read_operations, or the catalog does not load.             *)
ReviewAccepted(contract) ==
    /\ Document[contract].reviewed # {}
    /\ \A o \in Document[contract].reviewed :
          /\ o[1] = "GET" /\ o \in Operations(contract)
          /\ Supported(contract, o) /\ ~IsSensitive(contract, o)

(* setup() of the installer has run to its end: startup.sh starts nothing   *)
(* before that.                                                             *)
Installable(contract) ==
    /\ RefsResolve(contract)
    /\ \A o \in Operations(contract) : Unresolved \notin Range(Parameters(contract, o))
    /\ ReviewAccepted(contract)

(* catalog()                                                                *)
CatalogOf(contract) ==
    [o \in Operations(contract) |->
        [schema |-> InputSchema(contract, o), supported |-> Supported(contract, o)]]
=============================================================================
