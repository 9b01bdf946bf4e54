---------------------------- MODULE ToolParameters ----------------------------
(****************************************************************************)
(* What becomes of the parameters of a tool: the check of pinned values     *)
(* when an agent is saved (app/mvp/domain.py), the schema a model is shown  *)
(* (app/mvp/runtime.py) and the request the gateway builds from both        *)
(* (_request_parameters in app/mvp/gateway.py).                             *)
(*                                                                          *)
(* Parameters map names to values.  A schema holds the values each name may *)
(* have and the names that are required; it admits no other names.          *)
(****************************************************************************)
EXTENDS Integers

CONSTANTS
    TaskDefaults,  \* TASK_CREATE_DEFAULTS
    DefaultRows,   \* maxRows of a request that names none (200)
    MaxRows,       \* and its limit (500)
    Big            \* a value that takes a request over 3500 characters

ASSUME RowsAssumption == MaxRows \in Nat /\ DefaultRows \in 1..MaxRows

TaskCreate == <<"POST", "/v2/task">>

(* {**g, **f}                                                               *)
Over(f, g) == [n \in DOMAIN f \cup DOMAIN g |-> IF n \in DOMAIN f THEN f[n] ELSE g[n]]

Conforms(schema, params) ==
    /\ DOMAIN params \subseteq DOMAIN schema.props
    /\ schema.required \subseteq DOMAIN params
    /\ \A n \in DOMAIN params : params[n] \in schema.props[n]

-----------------------------------------------------------------------------
(* _validate_tool_binding: the model may supply what is not pinned.         *)

PinAccepted(schema, fixed) == Conforms([schema EXCEPT !.required = {}], fixed)

(* Mutant: the model is shown the schema of the operation.                  *)
OfferedWhole(schema, fixed) == schema

(* execute(): pinned names are taken out of what the model may choose.      *)
Offered(schema, fixed) ==
    [props |-> [n \in DOMAIN schema.props \ DOMAIN fixed |-> schema.props[n]],
     required |-> schema.required \ DOMAIN fixed]

-----------------------------------------------------------------------------
(* _request_parameters                                                      *)

(* FIXED_PARAMETER_OVERRIDE                                                 *)
Overrides(fixed, arguments) ==
    \E n \in DOMAIN fixed \cap DOMAIN arguments : arguments[n] # fixed[n]

(* Mutant: defaults replace what the body says.                             *)
CompletedOver(o, params) ==
    IF o = TaskCreate /\ "body" \in DOMAIN params
    THEN [params EXCEPT !["body"] = Over(TaskDefaults, @)]
    ELSE params

Completed(o, params) ==
    IF o = TaskCreate /\ "body" \in DOMAIN params
    THEN [params EXCEPT !["body"] = Over(@, TaskDefaults)]
    ELSE params

Merged(o, fixed, arguments) == Completed(o, Over(fixed, arguments))

(* INVALID_ARGUMENTS is the other way not to be admitted.                   *)
Admitted(o, schema, fixed, arguments) ==
    ~Overrides(fixed, arguments) /\ Conforms(schema, Merged(o, fixed, arguments))

(* ARGUMENTS_TOO_LARGE                                                      *)
TooLarge(params) == \E n \in DOMAIN params : params[n] = Big

Paged(o, schema) == o[1] = "GET" /\ "maxRows" \in DOMAIN schema.props

(* Mutant: only a number of rows the caller chose is looked at.             *)
RowsChosenInRange(o, schema, params) ==
    Paged(o, schema) /\ "maxRows" \in DOMAIN params => params["maxRows"] <= MaxRows

(* params.setdefault("maxRows", 200), after the schema was checked.         *)
WithRows(o, schema, params) ==
    IF Paged(o, schema) THEN Over(params, [maxRows |-> DefaultRows]) ELSE params

(* MAX_ROWS_RANGE_1_500                                                     *)
RowsInRange(o, schema, params) ==
    Paged(o, schema) => WithRows(o, schema, params)["maxRows"] \in 1..MaxRows

Accepted(o, schema, fixed, arguments) ==
    /\ Admitted(o, schema, fixed, arguments)
    /\ ~TooLarge(Merged(o, fixed, arguments))
    /\ RowsInRange(o, schema, Merged(o, fixed, arguments))

Sent(o, schema, fixed, arguments) ==
    WithRows(o, schema, Merged(o, fixed, arguments))
=============================================================================
