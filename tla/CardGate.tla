------------------------------- MODULE CardGate -------------------------------
(***************************************************************************)
(* A member card from the one who signs it to the two gates that judge a   *)
(* submit carrying it: checkMemberCard in coordinator/src/logic.js and, in *)
(* the worker's place, _member_gate of pygrid/testkit.py, which asks       *)
(* check_card in pygrid/club.py.  ClubDesk is the command line that signs. *)
(*                                                                         *)
(* Abstractions.  A document is a card and its signature, and each is one  *)
(* of the classes the two functions or the two encoders tell apart:        *)
(*   base64    padded, "unpadded" (no = at its end), "bad"; a padded       *)
(*             member_verify_key is the keypair it belongs to; of a        *)
(*             signature also "excess" (an = after whole groups of four)   *)
(*   issued    "date", "digits" (a date in digits other than 0-9), "long"  *)
(*             (64 characters, but more UTF-16 units), "bad"               *)
(*   numbers   "int", "float" (an integer written 7.0), "fraction",        *)
(*             "unsafe" (past 2^53), "huge" (past the doubles, 1e400)      *)
(*   any field "nan" (NaN or Infinity: python's json reads and writes it,  *)
(*             JSON.parse does not)                                        *)
(* A signature is the set of byte strings the club key signed with it: one *)
(* or, of another key, none.  The window and the nonce of the member       *)
(* signature are in SignedRequest: here they are good.                     *)
(***************************************************************************)
CONSTANTS
    Names,    \* member names of 1..MEMBER_MAX characters
    BadName,  \* a member that is not one
    Pairs,    \* signing keypairs of members
    NoPair    \* no member signature at all

ASSUME CardAssumption ==
    /\ BadName \notin Names /\ "nan" \notin Names \cup {BadName}
    /\ Pairs \cap {NoPair, "padded", "unpadded", "excess", "bad", "nan"} = {}

Numbers == {"int", "float", "fraction", "unsafe", "huge", "nan"}

\* extra is a field beyond the four: none, a number, or one called sig.
Fields == [member |-> Names \cup {BadName, "nan"},
           key    |-> Pairs \cup {"unpadded", "bad", "nan"},
           issued |-> {"date", "digits", "long", "bad", "nan"},
           serial |-> Numbers,
           extra  |-> Numbers \cup {"none", "sig"}]

Texts == {"padded", "unpadded", "excess", "bad"}

Cards == [member : Fields.member, key : Fields.key, issued : Fields.issued,
          serial : Fields.serial, extra : Fields.extra]

VARIABLES
    at,      \* "desk", "file", "edited", "wire", "judged"
    desk,    \* history: who signed, "line", "cut", "issue", "later"
    made,    \* history: the card that was signed, and with what
    held,    \* the keypairs its holder has
    sender,  \* history: who put it into the header
    signer,  \* the keypair that signed the submit
    card,    \* the card of the document
    sig,     \* its signature: the bytes signed and how it is written
    worker,  \* the worker's answer
    tool     \* the test kit's answer

gateVars == <<at, desk, made, held, sender, signer, card, sig, worker, tool>>

Verdicts == {"none", "ok", "card_malformed", "card_invalid", "card_not_signed_by_club",
             "member_sig_missing", "member_sig_invalid"}

GateTypeOK ==
    /\ at \in {"desk", "file", "edited", "wire", "judged"}
    /\ desk \in {"none", "line", "cut", "issue", "later"}
    /\ sender \in {"none", "client", "other"}
    /\ made \in [card : Cards, signed : SUBSET Cards]
    /\ held \in SUBSET Pairs /\ signer \in Pairs \cup {NoPair}
    /\ card \in Cards
    /\ sig \in [signed : SUBSET Cards, text : Texts]
    /\ worker \in Verdicts /\ tool \in Verdicts

Blank == [member |-> BadName, key |-> "bad", issued |-> "bad", serial |-> "int",
          extra |-> "none"]

GateInit ==
    /\ at = "desk" /\ desk = "none" /\ sender = "none" /\ signer = NoPair
    /\ made = [card |-> Blank, signed |-> {}] /\ held = {} /\ card = Blank
    /\ sig = [signed |-> {}, text |-> "padded"]
    /\ worker = "none" /\ tool = "none"
-------------------------------------------------------------------------------
(* The two encoders. *)

\* An integral float is written as an integer, one past the doubles as Infinity.
Rewritten(number) ==
    IF number = "float" THEN "int" ELSE IF number = "huge" THEN "nan" ELSE number

\* canonical_json with _js_numbers, of the card as python read it.
JsNumbers(c) == [c EXCEPT !.serial = Rewritten(@), !.extra = Rewritten(@)]

\* card_bytes: the card without a field called sig.
CardBytes(c) == [JsNumbers(c) EXCEPT !.extra = IF @ = "sig" THEN "none" ELSE @]

\* Mutated form: the four fields that are checked, and no others.
FourFields(c) == {[JsNumbers(c) EXCEPT !.extra = "none"]}

\* canonicalJson of the decoded card, nothing for numbers it refuses.
CanonicalJson(c) ==
    IF {c.serial, c.extra} \cap {"fraction", "unsafe", "huge", "nan"} # {} THEN {}
    ELSE {JsNumbers(c)}
-------------------------------------------------------------------------------
(* The two verdicts on a document with card c and signature s. *)

\* JSON.parse, before anything is looked at.
Parses(c) == \A f \in DOMAIN Fields : c[f] # "nan"

\* b64ToBytes, isKey32, ISSUED_RE and Number.isSafeInteger.
WorkerTakesB64(b) == b \notin {"excess", "bad"}

WorkerTakesFields(c) ==
    /\ c.member \in Names
    /\ WorkerTakesB64(c.key)
    /\ c.issued = "date"
    /\ c.serial \in {"int", "float"}

\* Mutated form: the signature comes before the fields.
SignatureFirst(c, s) ==
    IF ~Parses(c) \/ ~WorkerTakesB64(s.text) THEN "card_malformed"
    ELSE IF CanonicalJson(c) \cap s.signed = {} THEN "card_not_signed_by_club"
    ELSE IF ~WorkerTakesFields(c) THEN "card_invalid"
    ELSE "ok"

\* decodeCardHeader and verifyCardDocument
WorkerVerdict(c, s) ==
    IF ~Parses(c) \/ ~WorkerTakesB64(s.text) THEN "card_malformed"
    ELSE IF ~WorkerTakesFields(c) \/ CanonicalJson(c) = {} THEN "card_invalid"
    ELSE IF CanonicalJson(c) \cap s.signed = {} THEN "card_not_signed_by_club"
    ELSE "ok"

\* b64decode with validate, len in characters, a regular expression over all digits,
\* isinstance int.
ToolTakesB64(b) == b \in Pairs \cup {"padded", "excess"}

ToolTakesFields(c) ==
    /\ c.member \in Names
    /\ ToolTakesB64(c.key)
    /\ c.issued \in {"date", "digits", "long"}
    /\ c.serial = "int"

\* check_card
ToolVerdict(c, s) ==
    IF ~ToolTakesB64(s.text) THEN "card_malformed"
    ELSE IF ~ToolTakesFields(c) THEN "card_invalid"
    ELSE IF CardBytes(c) \notin s.signed THEN "card_not_signed_by_club"
    ELSE "ok"
-------------------------------------------------------------------------------
(* The two gates: the card, then the member signature by the key it names. *)

MemberSig(c, by) ==
    IF by = NoPair THEN "member_sig_missing"
    ELSE IF by # c.key THEN "member_sig_invalid"
    ELSE "ok"

\* Mutated form: any signature of the member side will do.
AnySig(c, by) == IF by = NoPair THEN "member_sig_missing" ELSE "ok"

\* checkMemberCard
WorkerGate(c, s, by) ==
    IF WorkerVerdict(c, s) # "ok" THEN WorkerVerdict(c, s) ELSE MemberSig(c, by)

\* _member_gate
ToolGate(c, s, by) ==
    IF ToolVerdict(c, s) # "ok" THEN ToolVerdict(c, s) ELSE MemberSig(c, by)
-------------------------------------------------------------------------------
(* A document's way. *)

Sign(c, who, keys, bytes) ==
    /\ at' = "file"
    /\ desk' = who
    /\ made' = [card |-> c, signed |-> bytes] /\ card' = c
    /\ sig' = [signed |-> bytes, text |-> "padded"]
    /\ held' = keys
    /\ UNCHANGED <<sender, signer, worker, tool>>

\* issue, called by a program: the date is taken as it is given, and so is the size
\* of the serial, which goes through int.  The holder has one keypair, that of the card or another.
Issue(c, k) ==
    /\ at = "desk"
    /\ c.member \in Names /\ ToolTakesB64(c.key)
    /\ c.issued # "nan" /\ c.serial \in {"int", "unsafe"} /\ c.extra = "none"
    /\ Sign(c, "issue", {k}, {CardBytes(c)})

\* A later tool of the club: the fields it knows are good, and it adds one.
SignLater(c, k) ==
    /\ at = "desk"
    /\ ToolTakesFields(c) /\ c.extra # "sig"
    /\ Sign(c, "later", {k}, {CardBytes(c)})

\* The file is written by hand: one field of the card, or the signature.
Edit(f) ==
    /\ at = "file" /\ at' = "edited"
    /\ \E v \in Fields[f] \ {card[f]} : card' = [card EXCEPT ![f] = v]
    /\ UNCHANGED <<desk, made, held, sender, signer, sig, worker, tool>>

\* A signature of another length has nothing signed with it.
EditedSigs == {[sig EXCEPT !.text = "unpadded"], [sig EXCEPT !.text = "bad"],
               [signed |-> {}, text |-> "padded"], [signed |-> {}, text |-> "excess"]}

EditSig(s) ==
    /\ at = "file" /\ at' = "edited"
    /\ sig' = s
    /\ UNCHANGED <<desk, made, held, sender, signer, card, worker, tool>>

Send(who, c, by) ==
    /\ at \in {"file", "edited"} /\ at' = "wire"
    /\ sender' = who /\ signer' = by
    /\ card' = c
    /\ UNCHANGED <<desk, made, held, sig, worker, tool>>

\* Mutated form: the client sends the document as it is in its file.
SendVerbatim == \E k \in held : Send("client", card, k)

\* GridClient: no client is built from a card without a keypair; the header is the
\* document's canonical json.
SendByClient == \E k \in held : Send("client", JsNumbers(card), k)

\* Another program of the holder sends it as it is, signed or not.
SendByOther == \E k \in held \cup {NoPair} : Send("other", card, k)

Judge ==
    /\ at = "wire" /\ at' = "judged"
    /\ worker' = WorkerGate(card, sig, signer)
    /\ tool' = ToolGate(card, sig, signer)
    /\ UNCHANGED <<desk, made, held, sender, signer, card, sig>>

GateNext ==
    \/ \E f \in DOMAIN Fields : Edit(f)
    \/ \E s \in EditedSigs : EditSig(s)
    \/ SendByClient \/ SendByOther \/ Judge
-------------------------------------------------------------------------------
\* The worker admits what the club signed and nothing else, from someone who holds the
\* keypair the signed card names: after any edit a card it admits says the same in every
\* field, a field it does not know included (logic.js verifyCardDocument).
AdmittedWasSigned ==
    worker = "ok" => JsNumbers(card) = CardBytes(made.card) /\ made.card.key \in held

\* Of the cards our client sends, the tool admits every one the worker admits, so
\* long as its base64 is padded.
ToolKnowsAdmitted ==
    sender = "client" /\ worker = "ok" /\ card.key # "unpadded" /\ sig.text = "padded"
        => tool = "ok"

\* Where the two read the same text differently, apart from fields they do not know:
\* b64ToBytes and b64decode, UTF-16 units and characters, \d, JSON.parse and json.loads.
ReadAlike(c, s) ==
    /\ "unpadded" \notin {c.key, s.text} /\ s.text # "excess"
    /\ c.issued \notin {"digits", "long"}
    /\ Parses(c)

\* Those aside, an edit of any of the four fields or of the signature gets the same code
\* from both: they make the same checks in the same order, over the same bytes
\* (pygrid/club.py:60-61 and 189).
SameCode ==
    sender = "client" /\ card.extra = "none" /\ ReadAlike(card, sig) => worker = tool

\* pygrid/club.py:189-190: "the checks and the codes are the same ones logic.js
\* applies, in the same order, so a card that passes here passes there".
PassesHerePassesThere == tool = "ok" => worker = "ok"
===============================================================================
