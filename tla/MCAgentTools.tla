----------------------------- MODULE MCAgentTools -----------------------------
(* Contracts with two operations, and what designers and models try.        *)
EXTENDS AgentTools

CONSTANT Short

Rows(values, needed) ==
    [in |-> "query", name |-> "maxRows", values |-> values, required |-> needed]
Filter == [in |-> "query", name |-> "filter", values |-> {Short, Big}, required |-> FALSE]
Header == [in |-> "header", name |-> "filter", values |-> {Short}, required |-> FALSE]
Nameless == [in |-> "query", values |-> {Short}, required |-> FALSE]
Untyped == [in |-> "query", name |-> "maxRows", values |-> NoSchema, required |-> TRUE]
Default == [in |-> "query", name |-> "default", values |-> {Short}, required |-> TRUE]
To(name) == [ref |-> name]

(* The last one has a cycle, which only the catalog notices.                *)
Chain == [A |-> Rows(0..3, FALSE), B |-> To("A")]
Cycle == [A |-> To("B"), B |-> To("A")]

TaskBody ==
    [fields |-> [Name |-> {"n"}, StartDate |-> {"", "n"}, Settings |-> {"n"}],
     required |-> {}, needed |-> FALSE, full |-> TRUE]

Upload == [fields |-> NoSchema, required |-> {}, needed |-> TRUE, full |-> FALSE]

Read(own, answers) == [own |-> own, body |-> NoBody, answers |-> answers]

Written(components, own, answers, reviewed) ==
    [components |-> components,
     shared |-> ("/v2/locks" :> <<To("B"), Filter>>) @@ ("/v2/task" :> << >>),
     operations |-> (<<"get", "/v2/locks">> :> Read(own, answers))
                    @@ (<<"head", "/v2/task">> :> Read(<<Header, Filter>>, {}))
                    @@ (<<"patch", "/v2/locks">> :> Read(<<Nameless, Filter, Rows({1}, TRUE)>>, {}))
                    @@ (<<"trace", "/v2/locks">> :>
                            Read(<<Rows({1}, TRUE), Header, Rows({2}, FALSE), Filter>>, {}))
                    @@ (<<"summary", "/v2/locks">> :> Read(<< >>, {}))
                    @@ (<<"post", "/v2/task">> :>
                            [own |-> << >>, body |-> TaskBody, answers |-> {}]),
     reviewed |-> reviewed]

(* A document with the inputs the catalog cannot offer, or not as they are. *)
Awkward ==
    [components |-> << >>,
     shared |-> ("/v2/locks" :> << >>) @@ ("/v2/locks/{id}" :> << >>),
     operations |-> (<<"get", "/v2/locks">> :> Read(<<Default, Rows(1..2, TRUE)>>, {}))
                    @@ (<<"get", "/v2/locks/{id}">> :> Read(<<Filter>>, {}))
                    @@ (<<"delete", "/v2/locks">> :> Read(<<Untyped>>, {}))
                    @@ (<<"post", "/v2/locks">> :>
                            [own |-> <<Filter>>, body |-> Upload, answers |-> {}]),
     reviewed |-> {<<"GET", "/v2/locks">>}]

(* A digest says which of these a document is made of.                      *)
SomeContracts == ((1..2) \X (1..4) \X (1..3)) \cup {<<3, 1, 1>>}

SomeDocuments ==
    [c \in SomeContracts |->
        IF c[1] = 3 THEN Awkward ELSE
        Written(<<Chain, Cycle>>[c[1]],
                << << >>, <<Rows(1..2, TRUE)>>, <<Nameless>>, <<To("gone")>> >>[c[2]],
                IF c[3] = 3 THEN {"password"} ELSE {},
                IF c[3] = 2 THEN {} ELSE {<<"GET", "/v2/locks">>})]

(* Two documents that differ in what they let maxRows be.                   *)
SomeUpgrades == {<<1, 1, 1>>, <<1, 2, 1>>}

Body(start) == [Name |-> "n", StartDate |-> start]

SomePins == {<< >>, [maxRows |-> 1], [body |-> Body("n")], [body |-> [Name |-> "n"]]}

OldPins == {[maxRows |-> 3], [body |-> [Name |-> "n"]]}

SomeArguments ==
    {<< >>, [maxRows |-> 0], [maxRows |-> 2, filter |-> Short], [filter |-> Big],
     [body |-> Body("")], [body |-> [Name |-> "n"]]}

Defaults == [StartDate |-> ""]
=============================================================================
