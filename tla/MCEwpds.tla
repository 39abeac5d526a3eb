------------------------------- MODULE MCEwpds -------------------------------
(* Small EWPDSs for TLC. *)
EXTENDS EwpdsSemantics, RelationDomain

CONSTANTS p, p2, q, qf, a, b, keep, havoc, Depth, Cut

MCStack == {a, b}
MCP == {p, p2}
OneState == {p}
MCQ == {q, qf}
Final == {qf}
MCClient == {keep, havoc}

(***************************************************************************)
(* Two merge functions of a client: the callee cannot touch what the       *)
(* caller knows, and the callee may do anything to it.                     *)
(***************************************************************************)
MCApply(m, w1, w2) ==
    IF w2 = RelZero THEN RelZero
    ELSE IF m = keep THEN w1 ELSE RelExtend(w1, Point \X Point)

(* Neither forgets more of a caller that knows more. *)
ASSUME MCMergesMonotone == MergesMonotone

R(s, y, t, w, rw) ==
    [from |-> s, stk |-> y, to |-> t, stk1 |-> w[1], stk2 |-> w[2], weight |-> rw]
Add(r, m) == [rule |-> r, merge |-> m, replace |-> FALSE]

CallA(rw) == R(p, a, p, <<b, b>>, rw)
CallB == R(p, b, p, <<b, b>>, RelOne)

MCAdditions ==
    {Add(CallA(RelOne), ClientFn(keep)), Add(CallA(Flip), NoMerge),
     [Add(CallA(Flip), ClientFn(keep)) EXCEPT !.replace = TRUE],
     Add(CallB, ClientFn(keep)),
     Add(R(p, b, p, <<EPS, EPS>>, Flip), NoMerge),
     Add(R(p, a, p, <<a, EPS>>, Flip), NoMerge)}

Aut(ts) ==
    LET key(x) == [from |-> x[1], stk |-> x[2], to |-> x[3]]
        keys == {key(x) : x \in ts}
    IN  [trans |-> keys,
         weight |-> [k \in keys |-> (CHOOSE x \in ts : key(x) = k)[4]],
         gen |-> 0]

(* The second input lets two calls with one return point hide a growth. *)
MCInputs == {Aut({<<p, a, qf, RelOne>>}),
             Aut({<<p, a, qf, RelOne>>, <<p, b, qf, Flip>>})}
-----------------------------------------------------------------------------
(***************************************************************************)
(* The weight of every configuration of at most Depth symbols, read off    *)
(* the output of a first query, is that of the runs of the EWPDS, with a   *)
(* merge at each return, unless a call is hidden or rules disagree.  The   *)
(* output is read without the epsilon transitions into generated states:   *)
(* what they return to has been merged already, and extending through one  *)
(* would count the callee without its merge function.                      *)
(***************************************************************************)
Order == IF query = "post" THEN "REVERSE" ELSE "INORDER"
Readable == [fa EXCEPT !.trans = {k \in @ : k.stk = EPS => k.to \notin GenState}]
AnswersQuery ==
    pc = "done" /\ gen = 1 /\ (\A r \in rules : IsPush(r) => ~ Hiding(r)) =>
        LET out == Accepts(Readable, Final, Order, Depth)
            ref == Answer(query, Accepts(input, Final, Order, Cut), Cut)
        IN  \A c \in Configs(Depth) : out[c] = ref[c]

(***************************************************************************)
(* poststar of the output of poststar adds nothing to it: the ETrans keep  *)
(* their weights at the call and their merge functions through the copy.   *)
(***************************************************************************)
PostAgainAddsNothing ==
    pc = "done" /\ query = "post" /\ DOMAIN input.call # {}
      /\ (\A r \in rules : IsPush(r) => ~ Hiding(r)) =>
        LET before == [input EXCEPT !.trans = {k \in @ : k.stk = EPS => k.to \notin GenState}]
        IN  Accepts(Readable, Final, "REVERSE", Depth)
              = Accepts(before, Final, "REVERSE", Depth)
=============================================================================
