---------------------------- MODULE TermKernels -----------------------------
(***************************************************************************)
(* Kernels for model checking: a row is the expression it was computed by, *)
(* so two rows are equal only if the code combined the same operands in    *)
(* the same way.                                                           *)
(***************************************************************************)
EXTENDS Integers, Sequences

TermEmbed(token, at)  == <<"embed", token, at>>
TermQuery(l, x)       == <<"q", l, x>>
TermKV(l, x)          == <<"kv", l, x>>
TermAttention(q, kvs) == <<"att", q, kvs>>
TermAttProj(l, a)     == <<"attproj", l, a>>
TermFc(l, x)          == <<"fc", l, x>>
TermFcProj(l, h)      == <<"fcproj", l, h>>
TermAdd(x, y)         == <<x, y>>
TermUnembed(x)        == <<"logits", x>>

\* The residual row of the last token of p entering layer l, by the equations
\* of TransformerAssumption.
TermHidden(l, p) ==
    LET AttentionHalf(k, x, kvs) ==
            TermAdd(x, TermAttProj(k, TermAttention(TermQuery(k, x), kvs)))
        MlpHalf(k, y) == TermAdd(y, TermFcProj(k, TermFc(k, y)))
        rows[k \in 0..l] ==
            [i \in 1..Len(p) |->
               IF k = 0 THEN TermEmbed(p[i], i - 1)
               ELSE MlpHalf(k - 1, AttentionHalf(k - 1, rows[k - 1][i],
                              [j \in 1..i |-> TermKV(k - 1, rows[k - 1][j])]))]
    IN  rows[l][Len(p)]
=============================================================================
