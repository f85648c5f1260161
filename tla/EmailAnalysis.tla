--------------------------- MODULE EmailAnalysis ---------------------------
(***************************************************************************)
(* The pure algorithms between a raw message and its explanation: the MIME *)
(* walk and the anchor extractor (gmail/parser.py), the security findings  *)
(* (gmail/analysis.py) and the signals of the classifier (ml/features.py). *)
(* A behaviour takes one message through validation, parsing and analysis, *)
(* as an upload goes; the invariants compare what comes out with reference *)
(* definitions that do not follow the code's loops.                        *)
(*                                                                         *)
(* A host is the sequence of its labels, a file name the sequence of its   *)
(* dotted parts, a header the sequence of the results it states, and text  *)
(* is what the code looks for in it: counts of phrases, URLs, anchor tags. *)
(***************************************************************************)
EXTENDS Integers, Sequences, FiniteSets, SequencesExt

CONSTANTS
    Families,    \* the messages analysed, in sets that vary one part each
    Brands,      \* TRUSTED_BRANDS, in order
    Shorteners,  \* SHORTENER_DOMAINS
    Digits,      \* labels that are one to three digits
    MaxBody      \* MAX_BODY_CHARS, in tags, texts and URLs

Host   == Seq(STRING)
Target == [scheme : STRING, host : Host, encoded : BOOLEAN]
Token  == [tag : {"open", "data", "close", "trips"}, href : Target, data : Seq(STRING)]
Leaf   == [type : STRING, disposition : STRING, name : Seq(STRING),
           empty : BOOLEAN, content : Seq(Target) \cup Seq(Token)]
Text   == [urgency : Nat, credentials : Nat, greetings : Nat, exclaims : Nat,
           caps : Nat, words : Nat, urls : Seq(Host), brands : SUBSET STRING]

\* A message: a text body holds URLs, an HTML one tags and text, and what the
\* parser trips over.  The last of them before the cut stands for what the cut
\* leaves of it.
IsMessage(m) ==
    /\ DOMAIN m = {"file", "parts", "auth", "received_spf", "from", "display",
                   "reply_to", "return_path", "text"}
    /\ m.parts \in Seq(Leaf) /\ m.text \in Text
    /\ \A i \in DOMAIN m.parts :
           /\ m.parts[i].type = "text" => m.parts[i].content \in Seq(Target)
           /\ m.parts[i].type = "html" => m.parts[i].content \in Seq(Token)
    /\ m.auth \in Seq([mech : STRING, word : STRING]) /\ m.received_spf \in STRING
    /\ {m.from, m.reply_to, m.return_path} \subseteq Host
    /\ m.display \subseteq {Brands[i] : i \in DOMAIN Brands}

ASSUME EmailAnalysisAssumption ==
    /\ Brands \in Seq(STRING) /\ MaxBody \in Nat \ {0}
    /\ \A i \in DOMAIN Families : \A m \in Families[i] : IsMessage(m)

VARIABLES mail, at, parsed, findings, signals

vars == <<mail, at, parsed, findings, signals>>

None == "none"
NoHost == <<>>

\* An href as url_scheme and url_host read it, and whether it is heavily
\* percent-encoded; an anchor without one, and one with a blank one.
Href(scheme, host, encoded) == [scheme |-> scheme, host |-> host, encoded |-> encoded]
NoHref == Href("none", NoHost, FALSE)
Blank  == Href("blank", NoHost, FALSE)

-----------------------------------------------------------------------------
(* Sequences *)

\* The elements of s that are in S, in their order.
Only(s, S) ==
    LET only[i \in 0..Len(s)] ==
          IF i = 0 THEN <<>>
          ELSE IF s[i] \in S THEN Append(only[i - 1], s[i]) ELSE only[i - 1]
    IN only[Len(s)]

-----------------------------------------------------------------------------
(* File names and hosts *)

executable_ext == {"exe", "scr", "jar"}
script_ext     == {"js", "vbs", "ps1"}
macro_ext      == {"docm", "xlsm"}
archive_ext    == {"zip", "iso"}
doc_ext        == {"pdf", "doc"}

\* rsplit(".", 1): no dot, no extension.
extension(name) == IF Len(name) < 2 THEN None ELSE Last(name)

\* The last two labels.
base_domain(host) ==
    IF Len(host) < 2 THEN host ELSE SubSeq(host, Len(host) - 1, Len(host))

is_raw_ip(host) == Len(host) = 4 /\ Range(host) \subseteq Digits

\* A brand counts as named by a host that has it for a label.
Names(host, brand) == brand \in Range(host)

-----------------------------------------------------------------------------
(* parser.py *)

\* validate_and_read: why a file is refused, or "none".
Refusal(file) ==
    IF file.name = <<>> THEN "No file provided"
    ELSE IF extension(file.name) # "eml" THEN "Only .eml files are accepted"
    ELSE IF file.size = "empty" THEN "The uploaded file is empty"
    ELSE IF file.size = "over" THEN "File too large"
    ELSE IF ~file.colon THEN "File does not look like an email" ELSE None

EmptyWalk == [text |-> 0, html |-> 0, attachments |-> <<>>]

IsAttachment(part) ==
    part.disposition = "attachment" \/ (part.name # <<>> /\ part.disposition # "inline")

\* Mutant of Take: a part that is no body is passed over, named or not.
TakeUnnamed(parts, w, i) ==
    LET part == parts[i] IN
    IF IsAttachment(part) THEN [w EXCEPT !.attachments = Append(@, i)]
    ELSE IF part.type = "text" /\ w.text = 0
         THEN [w EXCEPT !.text = IF part.empty THEN 0 ELSE i]
    ELSE IF part.type = "html" /\ w.html = 0
         THEN [w EXCEPT !.html = IF part.empty THEN 0 ELSE i]
    ELSE w

\* One leaf of msg.walk(): an attachment, or the first body of its type that
\* is not empty; a named leaf that is neither is an attachment too.
Take(parts, w, i) ==
    LET part == parts[i]
        attach == [w EXCEPT !.attachments = Append(@, i)]
    IN IF IsAttachment(part) THEN attach
       ELSE IF part.type = "text" /\ w.text = 0
            THEN [w EXCEPT !.text = IF part.empty THEN 0 ELSE i]
       ELSE IF part.type = "html" /\ w.html = 0
            THEN [w EXCEPT !.html = IF part.empty THEN 0 ELSE i]
       ELSE IF part.name # <<>> THEN attach ELSE w

Walk(parts) ==
    LET walk[i \in 0..Len(parts)] ==
          IF i = 0 THEN EmptyWalk ELSE Take(parts, walk[i - 1], i)
    IN walk[Len(parts)]

\* What is kept of a body.
Cut(content) == IF Len(content) <= MaxBody THEN content ELSE SubSeq(content, 1, MaxBody)

NoAnchor == [href |-> NoHref, text |-> <<>>, links |-> <<>>]

Recorded(a) == Append(a.links, [href |-> a.href, text |-> a.text])

\* Mutant of Feed: the text of one anchor runs into the next.
FeedRunning(a, t) ==
    IF t.tag = "open" THEN [a EXCEPT !.href = t.href]
    ELSE IF a.href = NoHref THEN a
    ELSE IF t.tag = "data" THEN [a EXCEPT !.text = Append(@, t.data)]
    ELSE [a EXCEPT !.href = NoHref, !.links = Recorded(a)]

\* _AnchorExtractor: an opening tag starts afresh, text counts while an anchor
\* with an href is open, the closing tag records it.
Feed(a, t) ==
    IF t.tag = "open" THEN [a EXCEPT !.href = t.href, !.text = <<>>]
    ELSE IF a.href = NoHref THEN a
    ELSE IF t.tag = "data" THEN [a EXCEPT !.text = Append(@, t.data)]
    ELSE [a EXCEPT !.href = NoHref, !.text = <<>>, !.links = Recorded(a)]

Trips(tokens) == \E i \in DOMAIN tokens : tokens[i].tag = "trips"

\* An error anywhere in the body costs all of its anchors.
Extract(tokens) ==
    LET fed[i \in 0..Len(tokens)] ==
          IF i = 0 THEN NoAnchor ELSE Feed(fed[i - 1], tokens[i])
    IN IF Trips(tokens) THEN <<>> ELSE fed[Len(tokens)].links

\* _extract_links: the URLs of the text body, then the anchors of the HTML one.
Links(m, w) ==
    LET urls    == IF w.text = 0 THEN <<>> ELSE Cut(m.parts[w.text].content)
        anchors == IF w.html = 0 THEN <<>>
                   ELSE LET all == Extract(Cut(m.parts[w.html].content))
                        IN Only(all, {a \in Range(all) : a.href # Blank})
    IN [i \in DOMAIN urls |-> [href |-> urls[i], text |-> <<>>, source |-> "text"]]
       \o [i \in DOMAIN anchors |->
             [href |-> anchors[i].href, text |-> anchors[i].text, source |-> "html"]]

-----------------------------------------------------------------------------
(* analysis.py *)

Finding(category, indicator, severity, evidence) ==
    [category |-> category, indicator |-> indicator,
     severity |-> severity, evidence |-> evidence]

auth_results == {"pass", "fail", "softfail", "neutral", "none", "temperror",
                 "permerror", "unknown"}

Mechanisms == <<"spf", "dkim", "dmarc">>

\* parse_authentication: the first mention of a mechanism counts, if its word
\* is a known one; Received-SPF may lead with the result of spf instead.
Result(m, mech) ==
    LET said == Only(m.auth, {r \in Range(m.auth) : r.mech = mech})
    IN IF said # <<>> /\ said[1].word \in auth_results THEN said[1].word
       ELSE IF mech = "spf" /\ m.received_spf \in auth_results THEN m.received_spf
       ELSE "absent"

If(condition, finding) == IF condition THEN <<finding>> ELSE <<>>

\* What one result gives rise to; some give rise to nothing.
OfResult(m, mech) ==
    LET r == Result(m, mech)
        Say(severity) ==
            <<Finding("authentication", mech, severity, <<<<r>>>>)>>
    IN CASE r = "fail" -> Say("high") [] r = "softfail" -> Say("medium")
         [] r \in {"permerror", "temperror"} -> Say("low")
         [] r = "none" -> Say(IF mech = "dmarc" THEN "medium" ELSE "low")
         [] OTHER -> <<>>

AuthFindings(m) ==
    FlattenSeq([i \in 1..3 |-> OfResult(m, Mechanisms[i])])
    \o If(\A mech \in Range(Mechanisms) : Result(m, mech) = "absent",
          Finding("authentication", "auth_absent", "low", <<>>))

Differs(host, other) ==
    host # NoHost /\ other # NoHost /\ base_domain(host) # base_domain(other)

\* The first brand the display name mentions and the sending domain does not
\* have: the search stops there.
SenderFindings(m) ==
    LET borrowed == Only(Brands, {b \in m.display : ~Names(m.from, b)})
    IN If(Differs(m.reply_to, m.from),
          Finding("sender", "reply_to_mismatch", "medium", <<m.from, m.reply_to>>))
       \o If(Differs(m.return_path, m.from),
             Finding("sender", "return_path_mismatch", "low", <<m.from, m.return_path>>))
       \o If(is_raw_ip(m.from), Finding("sender", "sender_raw_ip", "high", <<m.from>>))
       \o If("xn--" \in Range(m.from), Finding("sender", "punycode_domain", "medium", <<m.from>>))
       \o If(m.from # NoHost /\ borrowed # <<>>,
             Finding("sender", "display_name_brand_mismatch", "high", <<m.from, borrowed>>))

Dangerous == {"javascript", "data", "vbscript"}

\* The host url_host reads out of the visible text.  Any text is read as one,
\* after "http://": "Click here" is the host <<"click here">>.
Shown(link) == IF link.source = "html" THEN FlattenSeq(link.text) ELSE NoHost

NothingSaid == [seen |-> {}, said |-> <<>>]

\* Mutant of Add: one finding for the same indicator.
AddFirst(a, indicator, severity, evidence) ==
    IF \E key \in a.seen : key[1] = indicator THEN a
    ELSE [seen |-> a.seen \cup {<<indicator, evidence>>},
          said |-> Append(a.said, Finding("link", indicator, severity, evidence))]

\* add: one finding for the same indicator and evidence.
Add(a, indicator, severity, evidence) ==
    IF <<indicator, evidence>> \in a.seen THEN a
    ELSE [seen |-> a.seen \cup {<<indicator, evidence>>},
          said |-> Append(a.said, Finding("link", indicator, severity, evidence))]

AddIf(condition, a, indicator, severity, evidence) ==
    IF condition THEN Add(a, indicator, severity, evidence) ELSE a

\* What an href is quoted as.
Whole(href) == <<<<href.scheme>>, href.host, IF href.encoded THEN <<"%">> ELSE <<>>>>

\* The body of the loop; each branch above the last is a `continue`.
Judge(a, link) ==
    LET href == link.href  host == href.host
        a1 == AddIf(is_raw_ip(host), a, "link_raw_ip", "medium", <<host>>)
        a2 == AddIf(base_domain(host) \in Shorteners \/ host \in Shorteners,
                    a1, "link_shortener", "medium", <<host>>)
        a3 == AddIf(href.encoded, a2, "link_excessive_encoding", "low", Whole(href))
    IN IF href.scheme \in Dangerous THEN Add(a, "dangerous_scheme", "high", Whole(href))
       ELSE IF host = NoHost THEN a
       ELSE AddIf(Differs(Shown(link), host),
                  a3, "link_display_mismatch", "high", <<Shown(link), host>>)

LinkFindings(links) ==
    LET judged[i \in 0..Len(links)] ==
          IF i = 0 THEN NothingSaid ELSE Judge(judged[i - 1], links[i])
    IN judged[Len(links)].said

\* Double extension first, then what kind of file it is, which excludes others.
OfAttachment(name) ==
    LET ext == extension(name)
        Kind(indicator, severity) == <<Finding("attachment", indicator, severity, <<name>>)>>
    IN If(/\ Len(name) >= 3
          /\ name[Len(name) - 1] \in doc_ext
          /\ ext \in executable_ext \cup script_ext,
          Finding("attachment", "double_extension", "high", <<name>>))
       \o CASE ext \in executable_ext -> Kind("executable_attachment", "high")
            [] ext \in script_ext     -> Kind("script_attachment", "high")
            [] ext \in macro_ext      -> Kind("macro_office_attachment", "medium")
            [] ext \in archive_ext    -> Kind("archive_attachment", "low")
            [] OTHER                  -> <<>>

AttachmentFindings(m, w) ==
    FlattenSeq([i \in DOMAIN w.attachments |-> OfAttachment(m.parts[w.attachments[i]].name)])

Unsorted(m, p) ==
    AuthFindings(m) \o SenderFindings(m) \o LinkFindings(p.links) \o AttachmentFindings(m, p.walk)

Of(severity, found) == Only(found, {f \in Range(found) : f.severity = severity})

\* Mutant of WorstToLeast: the order of the words.
WorstToLeastByName(found) == Of("high", found) \o Of("low", found) \o Of("medium", found)

\* The stable sort by SEVERITY_RANK, reversed.
WorstToLeast(found) == Of("high", found) \o Of("medium", found) \o Of("low", found)

-----------------------------------------------------------------------------
(* features.engineered_features: the explainable signals of a text *)

AtMost(n, cap) == IF n < cap THEN n ELSE cap

\* The hosts of a text's URLs, and whether one lacks a brand the text names.
Hosts(t) == Range(t.urls) \ {NoHost}

Mismatched(t) == \E h \in Hosts(t), b \in t.brands : ~Names(h, b)

\* Mutant of LinkWeight: one reason only counts.
LinkWeightFirst(t) ==
    IF Hosts(t) \cap Shorteners # {} THEN 12
    ELSE IF \E h \in Hosts(t) : is_raw_ip(h) THEN 16
    ELSE IF Mismatched(t) THEN 10
    ELSE IF Len(t.urls) >= 3 THEN 6 ELSE 0

LinkWeight(t) ==
    (IF Hosts(t) \cap Shorteners # {} THEN 12 ELSE 0)
    + (IF \E h \in Hosts(t) : is_raw_ip(h) THEN 16 ELSE 0)
    + (IF Mismatched(t) THEN 10 ELSE 0)
    + (IF Len(t.urls) >= 3 THEN 6 ELSE 0)

\* Weight and severity of each kind of signal; weight 0 is no finding.
Signals(m, t) ==
    LET Signal(weight, severity) == [weight |-> weight, severity |-> severity]
        w == LinkWeight(t)
    IN [sender  |-> Signal(18 * Cardinality({b \in m.display :
                                  m.from # NoHost /\ ~Names(m.from, b)}), "high"),
        urgency |-> Signal(AtMost(9 * t.urgency, 30), IF t.urgency > 2 THEN "high" ELSE "medium"),
        asks    |-> Signal(AtMost(11 * t.credentials, 26), "high"),
        greets  |-> Signal(IF t.greetings > 0 THEN 8 ELSE 0, "low"),
        links   |-> Signal(AtMost(w, 34), IF w > 18 THEN "high" ELSE "medium"),
        format  |-> Signal(IF t.exclaims >= 3 \/ t.caps >= 2
                           THEN AtMost(2 * t.exclaims + 3 * t.caps, 14) ELSE 0, "low"),
        short   |-> Signal(IF t.words \in 1..39 /\ t.urls # <<>> THEN 6 ELSE 0, "low")]

-----------------------------------------------------------------------------
NotParsed == [walk |-> EmptyWalk, links |-> <<>>]

Init ==
    /\ \E i \in DOMAIN Families : mail \in Families[i]
    /\ at = "received"
    /\ parsed = NotParsed /\ findings = <<>> /\ signals = <<>>

Reject ==
    /\ at = "received" /\ Refusal(mail.file) # None
    /\ at' = "refused"
    /\ UNCHANGED <<mail, parsed, findings, signals>>

Parse ==
    /\ at = "received" /\ Refusal(mail.file) = None
    /\ LET w == Walk(mail.parts)
       IN parsed' = [walk |-> w, links |-> Links(mail, w)]
    /\ at' = "parsed"
    /\ UNCHANGED <<mail, findings, signals>>

\* classify() explains the text, analyze() the message.
Analyze ==
    /\ at = "parsed"
    /\ signals' = <<Signals(mail, mail.text)>>
    /\ findings' = WorstToLeast(Unsorted(mail, parsed))
    /\ at' = "analysed"
    /\ UNCHANGED <<mail, parsed>>

Next == Reject \/ Parse \/ Analyze

Spec == Init /\ [][Next]_vars

-----------------------------------------------------------------------------
\* Nothing of a message is lost or counted twice on the way to the analysis:
\* each leaf ends up in one place at most, every named leaf with content in
\* one, and each body is the first there is of its type (parse).
PartsUsedOnce ==
    at # "received" /\ at # "refused" =>
        LET parts == mail.parts  w == parsed.walk
            attached == Range(w.attachments)
            Bodies(type) == {i \in DOMAIN parts : /\ parts[i].type = type /\ ~parts[i].empty
                                                  /\ ~IsAttachment(parts[i])}
        IN /\ Cardinality(attached) = Len(w.attachments)
           /\ {w.text, w.html} \cap attached = {}
           /\ \A i \in DOMAIN parts : parts[i].name # <<>> /\ ~parts[i].empty =>
                  i \in attached \cup {w.text, w.html}
           /\ w.text = (IF Bodies("text") = {} THEN 0
                        ELSE CHOOSE i \in Bodies("text") : \A j \in Bodies("text") : i <= j)
           /\ w.html = (IF Bodies("html") = {} THEN 0
                        ELSE CHOOSE i \in Bodies("html") : \A j \in Bodies("html") : i <= j)

\* The anchors of what is kept of the HTML body are those an HTML reader sees in
\* it: one for each closing tag whose last opening tag is still open and has an
\* href, with the text between the two and no other (_AnchorExtractor).  If the
\* parser trips there are none at all (_extract_links).
AnchorsAreComplete ==
    at # "received" /\ parsed.walk.html # 0 =>
        LET tokens == Cut(mail.parts[parsed.walk.html].content)
            Tag(i, tag) == tokens[i].tag = tag
            Closes(i, j) == /\ i < j /\ Tag(i, "open") /\ Tag(j, "close")
                            /\ tokens[i].href \notin {NoHref, Blank}
                            /\ \A k \in i+1..j-1 : Tag(k, "data")
            ends == {j \in DOMAIN tokens : \E i \in DOMAIN tokens : Closes(i, j)}
            Nth(n) == CHOOSE j \in ends : Cardinality({k \in ends : k <= j}) = n
            Start(j) == CHOOSE i \in DOMAIN tokens : Closes(i, j)
            found == Only(parsed.links, {l \in Range(parsed.links) : l.source = "html"})
        IN IF Trips(tokens) THEN found = <<>>
           ELSE /\ Len(found) = Cardinality(ends)
                /\ \A n \in DOMAIN found :
                       LET j == Nth(n)  i == Start(j)
                       IN /\ found[n].href = tokens[i].href
                          /\ found[n].text = [k \in 1..j-i-1 |-> tokens[i + k].data]

\* What a link deserves to have said of it, on its own: that its scheme is
\* dangerous and no more, or everything its host, its form and its text give.
OfLink(link) ==
    LET href == link.href  host == href.host
        Say(condition, indicator, severity, evidence) ==
            IF condition THEN {Finding("link", indicator, severity, evidence)} ELSE {}
        dangerous == href.scheme \in Dangerous
        hosted    == ~dangerous /\ host # NoHost
    IN Say(dangerous, "dangerous_scheme", "high", Whole(href))
       \cup Say(hosted /\ is_raw_ip(host), "link_raw_ip", "medium", <<host>>)
       \cup Say(hosted /\ (base_domain(host) \in Shorteners \/ host \in Shorteners),
                "link_shortener", "medium", <<host>>)
       \cup Say(hosted /\ href.encoded, "link_excessive_encoding", "low", Whole(href))
       \cup Say(hosted /\ Differs(Shown(link), host),
                "link_display_mismatch", "high", <<Shown(link), host>>)

\* No link hides another: the loop that shares one set of what was said and
\* leaves an iteration early says of the links what each deserves on its own,
\* and says it once (_link_findings).
EveryLinkIsJudged ==
    at = "analysed" =>
        LET said == Only(findings, {f \in Range(findings) : f.category = "link"})
        IN /\ Range(said) = UNION {OfLink(parsed.links[i]) : i \in DOMAIN parsed.links}
           /\ Len(said) = Cardinality(Range(said))

Categories == <<"authentication", "sender", "link", "attachment">>

Rank(f) == CASE f.severity = "high" -> 3 [] f.severity = "medium" -> 2 [] f.severity = "low" -> 1

\* "All findings, most-severe first", and among equals in the order of the
\* analyzers (analyze); a deceptive file name is never the only thing said of
\* an attachment.
WorstFirst ==
    at = "analysed" =>
        LET before == Unsorted(mail, parsed)
            Copies(s, f) == Cardinality({i \in DOMAIN s : s[i] = f})
            Analyzer(f)  == CHOOSE i \in DOMAIN Categories : Categories[i] = f.category
        IN /\ \A f \in Range(before) \cup Range(findings) :
                  Copies(before, f) = Copies(findings, f)
           /\ \A i, j \in DOMAIN findings : i < j =>
                  \/ Rank(findings[i]) > Rank(findings[j])
                  \/ /\ Rank(findings[i]) = Rank(findings[j])
                     /\ Analyzer(findings[i]) <= Analyzer(findings[j])
           /\ \A f \in Range(findings) : f.indicator = "double_extension" =>
                  \E g \in Range(findings) :
                      g.indicator \in {"executable_attachment", "script_attachment"}
                      /\ g.evidence = f.evidence

\* The text with one more of something, and with the words that may take: none
\* for an exclamation mark, five for the longest phrase.
OneMore(t) ==
    {[t EXCEPT !.urgency = @ + 1], [t EXCEPT !.credentials = @ + 1],
     [t EXCEPT !.greetings = @ + 1], [t EXCEPT !.exclaims = @ + 1],
     [t EXCEPT !.caps = @ + 1]}
    \cup {[t EXCEPT !.brands = @ \cup {b}] : b \in Range(Brands)}
    \cup {[t EXCEPT !.urls = Append(@, h)] : h \in Range(t.urls) \cup Shorteners}

More(t) == UNION {OneMore([t EXCEPT !.words = @ + n]) : n \in {0, 1, 5}}

\* One more of what makes a text suspicious, and the words it takes, never make
\* it look less so: no signal loses weight or stops being high, save that a text
\* that reaches forty words is no longer short (engineered_features).
SignalsAreMonotone ==
    at = "analysed" =>
        \A u \in More(mail.text), kind \in DOMAIN signals[1] :
            LET now == signals[1][kind]  then == Signals(mail, u)[kind]
            IN /\ then.weight >= now.weight \/ (kind = "short" /\ u.words >= 40)
               /\ now.severity = "high" => then.severity = "high"
=============================================================================
