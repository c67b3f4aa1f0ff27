------------------------------ MODULE MCEngine -------------------------------
\* Texts of one or two spans and of glued ones, alone, in arrays, and under
\* fields whose names meet each rule, at two depths.
EXTENDS Engine

MCDeny == {"token", "cookie", "authorization", "idno", "apikey"}
MCAllow == {"tokenid"}

S(place, kind) == [place |-> place, glued |-> FALSE, val |-> Raw(kind)]
G(place, kind) == [S(place, kind) EXCEPT !.glued = TRUE]

Spans == {S("plain", k) : k \in {"none", "email", "iban", "jwt", "credit_card"}}
            \cup {S("bearer", "none"), S("bearer", "jwt"), S("cookie", "none"),
                  S("cookie", "email"), S("param", "none"), S("param", "iban"),
                  S("bearer in a cookie", "none"), S("bearer in a cookie", "jwt"),
                  S("param in a cookie", "none"), S("param in a cookie", "email")}

\* What comes free behind a mark: in the same redaction, or only in the next.
Glued == {Str(<<S("plain", "iban"), G("plain", "iban")>>),
          Str(<<S("plain", "iban"), G("plain", "credit_card")>>),
          Str(<<S("plain", "iban"), G("plain", "iban"), G("plain", "credit_card")>>),
          Str(<<S("plain", "ip"), G("plain", "iban"), S("plain", "email")>>),
          Str(<<S("plain", "ip"), G("bearer", "none")>>),
          Str(<<S("plain", "iban"), G("cookie", "none")>>)}

Lines == {Str(<<s>>) : s \in Spans}
Names == {"user", "accesstoken", "tokenid", "mytokens", "idno", "kidnote", "setcookie",
          "authorization", "apikey", ""}
Few1 == Str(<<S("cookie", "none"), S("plain", "email")>>)
Few2 == Arr(<<Str(<<S("param", "iban")>>), Other>>)

One(name, v) == Obj(<<[name |-> name, value |-> v]>>)

MCValues ==
    {Str(<<s, t>>) : s \in Spans, t \in Spans} \cup Lines \cup Glued \cup {Other}
    \cup {Arr(<<v, Str(<<S("plain", "email"), S("plain", "email")>>)>>) : v \in Glued}
    \cup {One(n, v) : n \in Names, v \in Lines \cup Glued \cup {Few1, Few2}}
    \cup {Obj(<<[name |-> n, value |-> One(m, Few1)], [name |-> "user", value |-> Few2]>>) :
             n \in Names, m \in Names}

MCPolicies == [mode : {"mask", "hash", "drop"}, iban_like : {{}, {"none", "email"}}]

MCDetectors == {Kind, Kind \ {"cookie", "url_sensitive_params"}, {"email", "api_key", "iban"}}
=============================================================================
