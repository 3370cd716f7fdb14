--------------------------- MODULE MCJsonDocument ---------------------------
(* Events, paths and formats for the model checking of JsonDocument.       *)
EXTENDS JsonDocument

(* A literal, the number 0.5 and a string that is a quotation mark *)
SomeScalars == {Value("NULL", <<>>), Value("NUMBER", <<Zero, Point, 53>>), Value("STRING", <<QuoteMark>>)}

(* The empty key and "k" *)
SomeKeys == {<<>>, <<107>>}

SomeWords == {<<107>>, <<OpenArray, Zero, CloseArray>>, <<OpenArray, 49, CloseArray>>,
              <<OpenArray, CloseArray>>, <<OpenArray, 107, CloseArray>>, <<OpenArray, Zero>>}
SomePaths ==
  SomeWords \cup {s \o <<Slash>> \o t : s, t \in SomeWords}

SomeFormats ==
  { [flags |-> {"MINIMIZE"}, tab_width |-> 0],
    [flags |-> {"PREFERDICTORDER"}, tab_width |-> 0],
    [flags |-> {"FORCECLRF", "INDENTWITHSPACES"}, tab_width |-> 2] }

=============================================================================
