-------------------------- MODULE MCEmailAnalysis --------------------------
(***************************************************************************)
(* The messages EmailAnalysis is checked on.  Each family varies one part  *)
(* of a message over all its combinations and leaves the rest plain; the   *)
(* last mixes one of each, for the order of the findings.                  *)
(***************************************************************************)
EXTENDS EmailAnalysis

MCBrands     == <<"paypal", "google">>
MCShorteners == {<<"bit", "ly">>}
MCDigits     == {"1", "2", "10"}

UpTo(S, n) == UNION {[1..k -> S] : k \in 0..n}

paypal == <<"paypal", "com">>
mirror == <<"paypal", "evil", "net">>
short  == <<"bit", "ly">>
ip     == <<"10", "1", "1", "2">>
puny   == <<"xn--", "com">>
deep   == <<"mail", "paypal", "com">>

Plain ==
    [file |-> [name |-> <<"mail", "eml">>, size |-> "fits", colon |-> TRUE],
     parts |-> <<>>, auth |-> <<[mech |-> "spf", word |-> "pass"]>>,
     received_spf |-> "absent", from |-> paypal, display |-> {},
     reply_to |-> NoHost, return_path |-> NoHost,
     text |-> [urgency |-> 0, credentials |-> 0, greetings |-> 0, exclaims |-> 0,
               caps |-> 0, words |-> 40, urls |-> <<>>, brands |-> {}]]

\* Every way a file may fail, and one that does not.
FileMails ==
    {[Plain EXCEPT !.file = f] : f \in
        [name : {<<>>, <<"mail">>, <<"mail", "eml">>, <<"mail", "exe">>},
         size : {"empty", "fits", "over"}, colon : BOOLEAN]}

Parts == [type : {"text", "html", "image"}, disposition : {"none", "inline", "attachment"},
         name : {<<>>, <<"a", "zip">>}, empty : BOOLEAN, content : {<<>>}]

PartMails == {[Plain EXCEPT !.parts = parts] : parts \in UpTo(Parts, 2)
                \cup {<<a, b, c>> : a \in Parts,
                      b, c \in {p \in Parts : p.disposition # "attachment" /\ p.type # "image"}}}

web == Href("http", paypal, FALSE)

Body(type, content) ==
    [type |-> type, disposition |-> "none", name |-> <<>>, empty |-> FALSE,
     content |-> content]

Open(href) == [tag |-> "open", href |-> href, data |-> <<>>]
Data(data) == [tag |-> "data", href |-> NoHref, data |-> data]
Close      == [tag |-> "close", href |-> NoHref, data |-> <<>>]
Error      == [tag |-> "trips", href |-> NoHref, data |-> <<>>]

Tokens == {Open(web), Open(NoHref), Open(Blank), Data(deep), Data(<<"click here">>), Close,
           Error}

Hrefs == {web, Href("http", short, FALSE), Href("http", ip, TRUE),
          Href("http", mirror, TRUE), Href("javascript", NoHost, FALSE),
          Href("mailto", NoHost, FALSE)}

Anchor(href, data) == <<Open(href), Data(data), Close>>

\* Some of them longer than MaxBody, with an anchor or an error past the cut.
AnchorMails == {[Plain EXCEPT !.parts = <<Body("html", t)>>] : t \in UpTo(Tokens, 4)
                    \cup [1..6 -> {Open(web), Open(NoHref), Data(deep), Close}]
                    \cup {Anchor(web, deep) \o t :
                             t \in [1..4 -> {Open(web), Data(deep), Close, Error}]}}

LinkMails ==
    {[Plain EXCEPT !.parts = <<Body("text", urls), Body("html", Anchor(h, d) \o Anchor(i, e))>>] :
        urls \in UpTo(Hrefs, 1), h, i \in Hrefs, d, e \in {deep, <<"click here">>, <<>>}}

Words == {"pass", "fail", "softfail", "none", "permerror", "madeup"}

AuthMails ==
    {[Plain EXCEPT !.auth = a, !.received_spf = s] :
        a \in UpTo([mech : Range(Mechanisms), word : Words], 2)
            \cup [1..3 -> [mech : Range(Mechanisms), word : {"fail", "none", "madeup"}]],
        s \in {"absent", "pass", "madeup"}}

SenderMails ==
    {[Plain EXCEPT !.from = f, !.reply_to = r, !.return_path = p, !.display = d] :
        f \in {NoHost, paypal, mirror, ip, puny}, r, p \in {NoHost, deep, mirror},
        d \in SUBSET Range(MCBrands)}

Named(name) == [type |-> "image", disposition |-> "attachment", name |-> name,
                empty |-> FALSE, content |-> <<>>]

Names3 == {<<"a">>, <<"a", "exe">>, <<"a", "pdf", "js">>, <<"a", "pdf", "exe">>,
           <<"a", "exe", "pdf">>, <<"a", "docm">>, <<"a", "zip">>}

MixedMails ==
    {[Plain EXCEPT !.parts = <<Named(n), Named(o), Body("html", Anchor(h, deep))>>,
                   !.auth = <<[mech |-> "dmarc", word |-> w]>>, !.from = f, !.display = {"paypal"}] :
        n, o \in Names3, h \in Hrefs, w \in {"fail", "softfail", "permerror"},
        f \in {paypal, ip}}

TextMails ==
    {[Plain EXCEPT !.text = t, !.from = f, !.display = {"google"}] :
        t \in [urgency : {0, 2, 3}, credentials : {0, 2}, greetings : {0, 1}, exclaims : {0, 2},
               caps : {0, 1}, words : {12, 39}, urls : UpTo({short, ip, mirror, NoHost}, 3),
               brands : {{}, {"paypal"}}],
        f \in {NoHost, paypal}}
    \cup {[Plain EXCEPT !.text.words = 0]}

MCFamilies == <<FileMails, PartMails, AnchorMails, LinkMails, AuthMails,
                SenderMails, MixedMails, TextMails>>
=============================================================================
