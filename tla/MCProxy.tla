------------------------------- MODULE MCProxy -------------------------------
(* Messages for the runs of Proxy, one for each way a request can go.        *)
EXTENDS Proxy

NoHeaders == << >>
Email == Record(EmptyReport, "email")
EmailAndIp == Record(Email, "ip")

Text == [encoding |-> "identity", wire |-> 1, plain |-> 1, rest |-> 0,
         valid |-> TRUE, utf8 |-> TRUE, engine |-> TRUE, found |-> Email,
         redacted |-> 2]
Empty == [Text EXCEPT !.wire = 0, !.plain = 0, !.engine = FALSE, !.found = EmptyReport]
Clean == [Text EXCEPT !.found = EmptyReport, !.redacted = 1]
Blank == [Clean EXCEPT !.engine = FALSE]
Gzip == [Text EXCEPT !.encoding = "gzip", !.plain = 2, !.found = EmailAndIp]
TwoMembers == [Gzip EXCEPT !.rest = 2]
Bomb == [Gzip EXCEPT !.plain = 3]
BadGzip == [Gzip EXCEPT !.valid = FALSE]
Binary == [Clean EXCEPT !.utf8 = FALSE]
Unsupported == [Text EXCEPT !.encoding = "unsupported"]
Unreadable == [Text EXCEPT !.encoding = "unreadable"]
Long == [Text EXCEPT !.wire = 3, !.plain = 3]

Cookie == [class |-> "sensitive", kind |-> "cookie", visible |-> TRUE,
           found |-> EmptyReport]
Host == [class |-> "skipped", kind |-> "cookie", visible |-> TRUE,
         found |-> EmptyReport]
Trace == [class |-> "other", kind |-> "cookie", visible |-> TRUE, found |-> Email]
Opaque == [Trace EXCEPT !.visible = FALSE]

\* Paths and queries that a detector would have found something in.
Plain(b) == [url |-> "?token=a", body |-> b, headers |-> NoHeaders]
WithHeaders(b, headers) == [Plain(b) EXCEPT !.url = "?email=b", !.headers = headers]

\* Two messages whose handlers share every counter, and a refused one.
Pair == {WithHeaders(Text, <<Cookie>>), Plain(Gzip), Plain(Bomb)}

\* One message for every branch of the handler.
Every == {Plain(b) : b \in {Bomb, BadGzip, Binary, Unsupported, Unreadable,
                            Long, TwoMembers}}
            \cup {WithHeaders(Blank, <<Host, Cookie, Trace>>),
                  WithHeaders(Empty, <<Opaque, Trace, Host>>)}

\* Bound: what follows a scrape is explored up to the first redirect.
ScrapesBeforeRedirects ==
    \A r \in Request :
        Len(sent[r]) <= 1 \/ \A s \in Scraper : ~copied[s].made /\ scrape[s] = M!NoSnapshot
=============================================================================
