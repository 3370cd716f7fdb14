----------------------------- MODULE MCDocbaker -----------------------------
(* Command lines and file systems for the model checking of Docbaker. *)
EXTENDS Docbaker, TLC

CONSTANTS MaxWords   \* bound: the number of words of a command line

Dashed(dashes, toks) == [dashes |-> dashes, toks |-> toks]
Name(s)            == Dashed(0, <<s>>)

AllTokens ==
  {"=", "a.h", "b.h", "c.h", "gone.h", "t.c", "d", "t", "s", "up", "nowhere", ".", "..", "D", "M", "I", "isystem",
   "html", "html-skin", "json", "dry-run", "help", "version", "verbose", "o", "f",
   "n", "v", "h", "x", "zzz"}

LinesOf(W) == UNION {[1 .. n -> W] : n \in 0 .. MaxWords}

(* Every kind of option, and inputs that are a header, another file and a  *)
(* directory with one header in it.                                        *)
OptionWords ==
  { Name("a.h"), Name("t.c"), Name("d"), Dashed(2, <<>>), Dashed(1, <<>>),
    Dashed(1, <<"D", "M">>), Dashed(1, <<"I">>), Dashed(1, <<"isystem", "s">>),
    Dashed(2, <<"html">>), Dashed(2, <<"html", "=", "o">>), Dashed(2, <<"html-skin">>),
    Dashed(2, <<"json">>), Dashed(2, <<"json", "=", "f">>),
    Dashed(1, <<"n", "v">>), Dashed(2, <<"dry-run", "=", "x">>),
    Dashed(1, <<"h">>), Dashed(2, <<"zzz">>) }

(* A tree "t" with a subdirectory, a file of another kind, a link "up" to  *)
(* the directory it is in and a dangling link "gone.h".                    *)
TreeLines ==
  { <<Dashed(2, <<"json">>), Name("t")>>, <<Name("t"), Name("a.h")>>, <<Name("s"), Name("s")>> }

SomeLines == LinesOf(OptionWords) \cup TreeLines

SomeHeaders == {Name("a.h"), Name("b.h"), Name("c.h"), Name("gone.h")}
SomeEntries ==
  Name("d") :> {Name("b.h")} @@
  Name("t") :> {Name("b.h"), Name("s"), Name("up")} @@
  Name("s") :> {Name("gone.h"), Name("t.c")}
SomeLinks == Name("up") :> Name("t") @@ Name("gone.h") :> Name("nowhere")

=============================================================================
