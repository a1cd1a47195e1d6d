------------------------------ MODULE MCTriage ------------------------------
(***************************************************************************)
(* TriageCorrectness for TLC: a set of answers in which every part of a    *)
(* patch takes every form, with one or two container entries.              *)
(***************************************************************************)
EXTENDS TriageCorrectness

Entry(name, extra, res, live, start) ==
  [is |-> "object", name |-> name, extra |-> extra,
   fields |-> [NoFields EXCEPT !["resources"] = res, !["livenessProbe"] = live,
                               !["startupProbe"] = start]]

Text == [Entry("missing", FALSE, "absent", "absent", "absent") EXCEPT !.is = "text"]

\* "livenessProbe" or ["livenessProbe"], or a key of an object in place of the list.
TextNamingProbe == [Text EXCEPT !.fields["livenessProbe"] = "ok"]

Scalar == [Text EXCEPT !.is = "scalar"]

Entries ==
  {Entry(name, extra, res, live, start) :
     name \in {"failing", "missing"}, extra \in BOOLEAN, res \in {"absent", "ok", "bad"},
     live \in {"absent", "ok"}, start \in {"absent", "ok", "bad"}}

FirstEntries == {Entry("failing", FALSE, "ok", "absent", start) : start \in {"absent", "bad"}}

SecondEntries ==
  {Entry(name, FALSE, "absent", "absent", start) :
     name \in {"failing", "other"}, start \in {"ok", "bad"}} \cup {Text}

Answer(is, envelope, list, cs) ==
  [is |-> is, envelope |-> envelope, list |-> list, containers |-> cs]

Patch(cs) == Answer("diagnosis", "exact", "list", cs)

\* Answers that may be wrong but whose parts are of the types that the code
\* takes for granted.
TypedAnswers ==
  {Patch(<<c>>) : c \in Entries}
    \cup {Patch(<<c, d>>) : c \in FirstEntries, d \in SecondEntries}
    \cup {Patch(<<>>), Patch(<<Text>>)}
    \cup {Answer("invalid", "exact", "list", <<>>)}
    \cup {Answer("diagnosis", e, "iterable", cs) :
            e \in {"exact", "extra_key", "missing_key"}, cs \in {<<>>, <<Text>>}}

\* Answers with a number, a text or null where an object is expected, a text or a
\* list that names a probe included, and a call that fails.
UntypedAnswers ==
  {Answer("diagnosis", "not_object", "not_iterable", <<>>),
   Answer("diagnosis", "exact", "not_iterable", <<>>),
   Answer("error", "not_object", "not_iterable", <<>>),
   Patch(<<Scalar>>),
   Patch(<<TextNamingProbe>>),
   Answer("diagnosis", "exact", "iterable", <<TextNamingProbe>>),
   Patch(<<Entry("failing", FALSE, "absent", "trips", "absent")>>),
   Patch(<<Entry("failing", FALSE, "absent", "trips", "bad")>>)}

MalformedAnswers == UntypedAnswers \ {Answer("error", "not_object", "not_iterable", <<>>)}

AllAnswers == TypedAnswers \cup UntypedAnswers
=============================================================================
