-------------------------- MODULE MCBodyRedaction ---------------------------
EXTENDS BodyRedaction, MCText

Api(n) == [total |-> Capped(n), by_type |-> [EmptyReport.by_type EXCEPT !["api_key"] = Capped(n)]]
MCReportOfText(t) == Api(MCFoundInText(t))
MCReportOfValue(t) ==
    Merge([total |-> Capped(Fields(t)),
           by_type |-> [EmptyReport.by_type EXCEPT !["cookie"] = Capped(Fields(t))]],
          Api(MCFoundInText(Walked(t))))

\* Every body of up to four bytes, and longer ones: values on several lines,
\* one value over several, secrets and fields in both, the two endings.
MCBodies ==
    UNION {[1 .. n -> {"k", "v", "d", "[", "]", "\n"}] : n \in 0 .. 4}
    \cup { <<"[", "d", "]", "\n", "[", "d", "]", "\n">>,
           <<"[", "d", "k", "v", "]", "\r", "\n", "k", "v", "\r", "\n", " ", "\n", "k", "v">>,
           <<"[", "\n", "d", "\n", "k", "v", "]", "\n">>,
           <<"[", "d", "]", "[", "d", "]", "\n">>,
           <<" ", "\r", "\n", "\n">>, <<"k", "v", "\n", "x">>, <<"\r">>, <<" ", "\n", "k", "v", "\r">> }

MCContentTypes == { {}, {"application/json"}, {"+json"}, {"ndjson"},
                    {"application/json", "jsonl"} }
=============================================================================
