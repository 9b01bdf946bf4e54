------------------------------ MODULE AgentTools ------------------------------
(****************************************************************************)
(* A tool on its way from the catalog to the target: a DBA enables it, a    *)
(* designer assigns it with pinned values, a run takes a snapshot of the    *)
(* assignment, its runner offers the rest to a model and sends what the     *)
(* model asks for; an image with another contract may replace the service   *)
(* at any moment.                                                           *)
(*                                                                          *)
(* An agent has one tool here: bindings are checked one by one, and the     *)
(* calls of a run are those of AgentRun.                                    *)
(****************************************************************************)
EXTENDS ToolContract, ToolParameters

CONSTANTS
    Upgrades,     \* contracts of the images that may replace the first one
    Pins,         \* what designers try to pin
    Arguments,    \* what models answer
    Legacy,       \* what bindings pin that were stored without a version
    Unversioned,  \* the contract of such a binding
    NoAgent, NoRun, NoRequest

ASSUME UpgradesAssumption == Upgrades \subseteq Contracts

(* What the pinned contract says: a new task needs all fields that have a   *)
(* default, and maxRows is a number without bounds.                         *)
ASSUME TaskAssumption ==
    \A c \in Contracts : TaskCreate \in Operations(c) =>
        LET body == Declared(c, TaskCreate).body
        IN HasBody(c, TaskCreate) /\ body.full /\ DOMAIN TaskDefaults \subseteq DOMAIN body.fields \ {"Settings"}

ASSUME PagedAssumption ==
    \A c \in Contracts : Installable(c) =>
        \A o \in Operations(c) : Paged(o, InputSchema(c, o)) =>
            DefaultRows \in InputSchema(c, o).props["maxRows"]

VARIABLES
    release,   \* the contract the installed image ships
    catalog,   \* its operations, computed once by each process
    enabled,   \* stable keys whose AI_TOOL_VERSION row is enabled
    agent,     \* the binding of the stored agent
    run,       \* SnapshotJSON of its run, until the run ends
    request    \* history: the last request the run sent

vars == <<release, catalog, enabled, agent, run, request>>

(* tool_by_key                                                              *)
Usable(o) == o \in DOMAIN catalog /\ catalog[o].supported

Schema(o) == catalog[o].schema

Allowed(o) == Usable(o) /\ StableKey(release, o) \in enabled

Init ==
    /\ release \in {c \in Contracts : Installable(c)}
    /\ catalog = CatalogOf(release)
    /\ enabled = {}
    /\ agent \in {NoAgent} \cup
                 [op: DOMAIN catalog, fixed: Legacy, contract: {Unversioned}]
    /\ run = NoRun
    /\ request = NoRequest

(* PUT /catalog/<stable_key>/availability                                   *)
Decide(o) ==
    /\ Usable(o)
    /\ StableKey(release, o) \in Imported(release)
    /\ enabled' \in {enabled \cup {StableKey(release, o)}, enabled \ {StableKey(release, o)}}
    /\ UNCHANGED <<release, catalog, agent, run, request>>

(* Mutant: the stored binding is used as it is.                             *)
ContractStored == agent.contract

(* get_agent: a binding without version is taken for the current contract.  *)
BoundContract == IF agent.contract = Unversioned THEN release ELSE agent.contract

Readable == agent.contract = Unversioned => Usable(agent.op)

(* POST and PUT /agents: validate_agent, then save_agent.                   *)
Save(o, fixed) ==
    /\ Allowed(o)
    /\ PinAccepted(Schema(o), fixed)
    /\ agent # NoAgent => Readable
    /\ agent' = [op |-> o, fixed |-> fixed, contract |-> release]
    /\ UNCHANGED <<release, catalog, enabled, run, request>>

Enqueue ==
    /\ agent # NoAgent /\ run = NoRun
    /\ Readable
    /\ run' = [op |-> agent.op, fixed |-> agent.fixed, contract |-> BoundContract,
               checked |-> agent.contract # Unversioned, phase |-> "QUEUED"]
    /\ UNCHANGED <<release, catalog, enabled, agent, request>>

(* The run ends, of itself or not.                                          *)
Ended == run' = NoRun /\ request' = NoRequest

(* Gateway(): TOOL_VERSION_MISMATCH and TOOL_BLOCKED.                       *)
Admissible == run.contract = release /\ Allowed(run.op)

Start ==
    /\ run # NoRun /\ run.phase = "QUEUED"
    /\ IF Admissible THEN run' = [run EXCEPT !.phase = "RUNNING"] /\ UNCHANGED request
       ELSE Ended
    /\ UNCHANGED <<release, catalog, enabled, agent>>

(* Gateway.execute.  A call that is refused changes nothing here.           *)
Call(arguments) ==
    /\ run # NoRun /\ run.phase = "RUNNING"
    /\ Allowed(run.op)
    /\ Accepted(run.op, Schema(run.op), run.fixed, arguments)
    /\ request' = [contract |-> release, op |-> run.op,
                   params |-> Sent(run.op, Schema(run.op), run.fixed, arguments)]
    /\ UNCHANGED <<release, catalog, enabled, agent, run>>

Finish ==
    /\ run # NoRun
    /\ Ended
    /\ UNCHANGED <<release, catalog, enabled, agent>>

(* The container is replaced: a runner dies with it, a queued run waits.    *)
Upgrade(contract) ==
    /\ contract # release /\ Installable(contract)
    /\ release' = contract
    /\ catalog' = CatalogOf(contract)
    /\ IF run # NoRun /\ run.phase = "RUNNING" THEN Ended ELSE UNCHANGED <<run, request>>
    /\ UNCHANGED <<enabled, agent>>

Next ==
    \/ \E o \in DOMAIN catalog : Decide(o)
    \/ \E o \in DOMAIN catalog, fixed \in Pins : Save(o, fixed)
    \/ Enqueue \/ Start \/ Finish
    \/ \E arguments \in Arguments : Call(arguments)
    \/ \E contract \in Upgrades : Upgrade(contract)

Spec == Init /\ [][Next]_vars

-----------------------------------------------------------------------------
(* Properties.                                                              *)

TypeOK ==
    /\ release \in Contracts
    /\ \A key \in enabled : key[1] \in Contracts /\ key \in Imported(key[1])
    /\ agent = NoAgent \/ /\ agent.fixed \in Pins \cup Legacy
                          /\ agent.contract \in Contracts \cup {Unversioned}
    /\ run = NoRun \/ /\ run.fixed \in Pins \cup Legacy
                      /\ run.contract \in Contracts
                      /\ run.phase \in {"QUEUED", "RUNNING"}
    /\ request # NoRequest => run # NoRun

(* README: "A pinned value cannot be replaced by the model".  Nor does      *)
(* anything the gateway adds, or an edit or upgrade after the snapshot,     *)
(* change it: a request carries every value that was pinned when it was     *)
(* saved, the body of a new task included.                                  *)
PinsAreSent ==
    request # NoRequest /\ run.checked =>
        \A n \in DOMAIN run.fixed :
            n \in DOMAIN request.params /\ request.params[n] = run.fixed[n]

(* README: "Every call is validated against a pinned SysAdmin OpenAPI       *)
(* contract".  However long a run waited and whatever was installed         *)
(* meanwhile, it only calls its operation of the very contract its pins     *)
(* were checked against; what is sent conforms to that operation's schema,  *)
(* also what was added after the check, and asks for 1 to 500 rows.         *)
SentConforms ==
    request # NoRequest =>
        /\ request.contract = run.contract /\ request.op = run.op
        /\ Conforms(Schema(request.op), request.params)
        /\ "maxRows" \in DOMAIN request.params /\ request.op[1] = "GET" =>
              request.params["maxRows"] \in 1..MaxRows

(* A model that keeps to the schema it is offered is never refused for its  *)
(* arguments, only for their size or their number of rows.                  *)
OfferedIsAccepted ==
    run # NoRun /\ run.phase = "RUNNING" /\ run.checked =>
        \A arguments \in Arguments :
            Conforms(Offered(Schema(run.op), run.fixed), arguments) =>
                Admitted(run.op, Schema(run.op), run.fixed, arguments)

(* What a document makes of the input of an operation, read off its list of *)
(* declarations without the loops of _input_schema.                         *)
Reflects(contract, o, schema, supported) ==
    LET all == Parameters(contract, o)
        whole == {i \in DOMAIN all : Complete(all[i])}
        last == {i \in whole : \A j \in whole : j > i => Identity(all[j]) # Identity(all[i])}
        asked == {i \in last : all[i]["in"] = "query" /\ all[i].values # NoSchema}
        taken == IF HasBody(contract, o) THEN {"body"} ELSE {}
        lost == {"example", "default"}
    IN /\ DOMAIN schema.props = ({all[i].name : i \in asked} \cup taken) \ lost
       /\ \A i \in asked : all[i].name \notin taken =>
             /\ all[i].name \notin lost => schema.props[all[i].name] = all[i].values
             /\ all[i].name \in schema.required <=> all[i].required
       /\ supported =>
             /\ DOMAIN all = whole /\ last = asked /\ o[2] \notin Templated
             /\ Declared(contract, o).body # NoBody => "body" \in DOMAIN schema.props

(* The catalog offers what the contract declares: of the declarations of a  *)
(* query parameter the last one, an operation's after its route's, decides  *)
(* what it may be and whether it is required.  Only a query parameter that  *)
(* is called body gives way, to the body of the request, and one that is    *)
(* called example or default is lost, although it stays required.  A        *)
(* supported operation leaves nothing else out: there is no other part of   *)
(* its input, in its route, its header or its body, that a call would have  *)
(* to fill.                                                                 *)
CatalogIsContract ==
    \A o \in DOMAIN catalog : Reflects(release, o, Schema(o), catalog[o].supported)
=============================================================================
