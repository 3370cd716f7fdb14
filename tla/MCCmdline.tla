----------------------------- MODULE MCCmdline -----------------------------
(* Command lines and option tables for the model checking of Cmdline. *)
EXTENDS Cmdline

CONSTANTS MaxWords   \* bound: the number of words of a command line

Opt(short, dashes, long, id, flags) ==
  [short |-> short, dashes |-> dashes, long |-> long, id |-> id, flags |-> flags]

(* One entry of each kind; "q" and "out" need an argument, "w" may have one. *)
GeneralTable ==
  << Opt("",  1, "D",    "D",    {"compiler"}),
     Opt("q", 2, "qual", "q",    {"required"}),
     Opt("w", 2, "warn", "w",    {"optional"}),
     Opt("",  2, "out",  "out",  {"required"}),
     Opt("n", 2, "",     "n",    {}) >>

Dashed(dashes, toks) == [dashes |-> dashes, toks |-> toks]

Words ==
  { Dashed(0, <<"a">>), Dash, DoubleDash,
    Dashed(1, <<"D">>), Dashed(1, <<"D", "x">>),
    Dashed(1, <<"q">>), Dashed(1, <<"q", "n">>),
    Dashed(1, <<"n", "w", "q">>), Dashed(1, <<"w", "z", "n">>), Dashed(1, <<"z">>),
    Dashed(2, <<"out">>), Dashed(2, <<"out", "=", "f">>), Dashed(2, <<"out", "=">>),
    Dashed(2, <<"warn">>), Dashed(2, <<"warn", "=", "v">>),
    Dashed(2, <<"zzz", "=", "v">>) }

AllTokens ==
  {"", "=", "a", "D", "x", "q", "qual", "n", "w", "warn", "v", "z", "zzz", "out", "f"}

LinesOf(W)   == UNION {[1 .. n -> W] : n \in 0 .. MaxWords}
GeneralLines == LinesOf(Words)

=============================================================================
