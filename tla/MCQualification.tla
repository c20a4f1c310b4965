-------------------------- MODULE MCQualification --------------------------
(***************************************************************************)
(* Instance of Qualification for TLC.                                      *)
(***************************************************************************)
EXTENDS Qualification, TLC

\* Nothing set, SMS and push off, everything off, WhatsApp on; the digest modes.
MCEntries ==
    { [channels |-> [sms |-> FALSE, push |-> FALSE], digest |-> "IMMEDIATE"],
      [channels |-> [c \in ALL_CHANNELS |-> FALSE], digest |-> "DAILY"],
      [channels |-> [whatsapp |-> TRUE, email |-> FALSE], digest |-> "HOURLY"] }

Free == [cooldown |-> FALSE, category |-> FALSE, channel |-> FALSE, global |-> FALSE]
Full == {[Free EXCEPT !.cooldown = TRUE], [Free EXCEPT !.category = TRUE],
         [Free EXCEPT !.channel = TRUE], [Free EXCEPT !.global = TRUE]}

\* Each cap alone, for every channel, or reached or lifted after some were asked.
MCUsages ==
    { [c \in ALL_CHANNELS |-> IF c \in asked THEN Free ELSE full] :
         full \in Full, asked \in {ALL_CHANNELS, {}, {"sms", "in_app"}} }

\* Overnight (21:00 to 08:00), within a day (01:00 to 07:00), and none.
MCWindows == {<<42, 16>>, <<2, 14>>, <<20, 20>>}

\* Too few samples; a clear best hour; two equal ones.
MCScoreTables ==
    { 9 :> 9, (9 :> 3 @@ 14 :> 8), (6 :> 7 @@ 20 :> 7) }

Text == [gsm |-> TRUE, length |-> 120, extended |-> 0, naira |-> 0, space |-> 110]

\* Lengths at and around both limits, with and without a late space; characters
\* of the extension table; naira signs that carry the text over the limit.
Texts ==
    { [Text EXCEPT !.length = n, !.space = s] : n \in {160, 161}, s \in {0, 150} }
    \cup { [Text EXCEPT !.gsm = FALSE, !.length = n, !.space = s] : n \in {70, 71}, s \in {0, 60} }
    \cup { [Text EXCEPT !.length = 159, !.extended = 2, !.space = 150] }
    \cup { [Text EXCEPT !.length = n, !.naira = 2, !.space = 150] : n \in {154, 155} }

Plain == [weights |-> <<>>, bucket |-> 0, locale |-> "en", text |-> Text]

\* Every language, every text, every kind of variant.
MCRenderings ==
    { [Plain EXCEPT !.locale = l] : l \in Locales }
    \cup { [Plain EXCEPT !.text = x] : x \in Texts }
    \cup { [Plain EXCEPT !.weights = ws, !.bucket = b] : ws \in {<<30, 50>>, <<60, 60>>}, b \in {0, 59, 99} }
=============================================================================
