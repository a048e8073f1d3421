---------------------------- MODULE ClubDeskProofs ----------------------------
(***************************************************************************)
(* Theorems about the desk and the two gates, for any number of names,     *)
(* keypairs and commands.                                                  *)
(***************************************************************************)
EXTENDS ClubDesk, TLAPS

(***************************************************************************)
(* The two encoders: what they keep and what they change.                  *)
(***************************************************************************)

LEMMA JsNumbersFields ==
    ASSUME NEW c \in Cards
    PROVE  /\ JsNumbers(c) \in Cards
           /\ JsNumbers(c).member = c.member /\ JsNumbers(c).key = c.key
           /\ JsNumbers(c).issued = c.issued
           /\ JsNumbers(c).serial = Rewritten(c.serial)
           /\ JsNumbers(c).extra = Rewritten(c.extra)
<1>1. c.serial \in Numbers /\ c.extra \in Numbers \cup {"none", "sig"}
  BY DEF Cards, Fields
<1>2. Rewritten(c.serial) \in Numbers
  BY <1>1 DEF Rewritten, Numbers
<1>3. Rewritten(c.extra) \in Numbers \cup {"none", "sig"}
  BY <1>1 DEF Rewritten, Numbers
<1> QED
  BY <1>2, <1>3 DEF JsNumbers, Cards, Fields

LEMMA CardBytesFields ==
    ASSUME NEW c \in Cards
    PROVE  /\ CardBytes(c) \in Cards
           /\ CardBytes(c).member = c.member /\ CardBytes(c).key = c.key
           /\ CardBytes(c).issued = c.issued
           /\ CardBytes(c).serial = Rewritten(c.serial)
           /\ CardBytes(c).extra = IF c.extra = "sig" THEN "none" ELSE Rewritten(c.extra)
<1> DEFINE d == JsNumbers(c)
<1>1. d \in Cards /\ d.extra = Rewritten(c.extra)
  BY JsNumbersFields
<1>2. (IF d.extra = "sig" THEN "none" ELSE d.extra)
         \in Numbers \cup {"none", "sig"}
  BY <1>1 DEF Cards, Fields
<1>3. /\ CardBytes(c) \in Cards
      /\ CardBytes(c).member = d.member /\ CardBytes(c).key = d.key
      /\ CardBytes(c).issued = d.issued /\ CardBytes(c).serial = d.serial
      /\ CardBytes(c).extra = IF d.extra = "sig" THEN "none" ELSE d.extra
  <2> HIDE DEF d
  <2>1. CardBytes(c) = [d EXCEPT !.extra = IF @ = "sig" THEN "none" ELSE @]
    BY DEF CardBytes, d
  <2> QED
    BY <1>1, <1>2, <2>1 DEF Cards, Fields
<1> QED
  BY <1>1, <1>3, JsNumbersFields DEF Rewritten, Cards, Fields

\* A card without a field called sig has one encoding, not two.
LEMMA OneEncoding ==
    ASSUME NEW c \in Cards, c.extra # "sig"
    PROVE  CardBytes(c) = JsNumbers(c)
<1>1. JsNumbers(c).extra # "sig"
  BY JsNumbersFields DEF Rewritten, Cards, Fields
<1>2. JsNumbers(c) \in Cards
  BY JsNumbersFields
<1> QED
  BY <1>1, <1>2 DEF CardBytes, Cards, Fields

LEMMA SameCard ==
    ASSUME NEW c \in Cards, NEW d \in Cards,
           c.member = d.member, c.key = d.key, c.issued = d.issued,
           c.serial = d.serial, c.extra = d.extra
    PROVE  c = d
BY DEF Cards, Fields

(***************************************************************************)
(* Type correctness.                                                       *)
(***************************************************************************)

\* What a running command knows of the directory: it found a whole club key and, when
\* it made a keypair of its own, no keyfile; nobody else writes while it runs.
CmdOK ==
    /\ cmd.at = "club" => club = "torn"
    /\ cmd.at \in {"card", "side", "key"} =>
          club \in ClubKeys /\ cmd.pair \in Pairs /\ cmd.member \in Names
    /\ cmd.at \in {"side", "key"} => cmd.pair # Own
    /\ cmd.at \in {"card", "side", "key"} /\ cmd.pair # Own => keyfile \notin Pairs

IsLineCard(c) ==
    /\ c \in Cards /\ c.member \in Names /\ c.key \in Pairs
    /\ c.issued = "date" /\ c.serial = "int" /\ c.extra = "none"

\* A whole card was signed with the club key that is there.
DocOK == doc.state = "whole" => /\ IsLineCard(doc.card)
                                /\ club \in ClubKeys /\ doc.under = club

DeskInv == TypeOK /\ CmdOK /\ DocOK /\ CardHasItsKey

LEMMA LineCardIsOne ==
    ASSUME NEW n \in Names, NEW p \in Pairs
    PROVE  IsLineCard(LineCard(n, p))
BY DEF IsLineCard, LineCard, Cards, Fields, Numbers

LEMMA BlankIsCard == Blank \in Cards
BY DEF Blank, Cards, Fields, Numbers

LEMMA DeskInit == Init => DeskInv
<1> SUFFICES ASSUME Init PROVE DeskInv
  OBVIOUS
<1>1. TypeOK
  <2>1. GateTypeOK
    BY BlankIsCard DEF Init, GateInit, GateTypeOK, Verdicts, Texts
  <2>2. /\ NoDoc \in [state : {"absent", "torn", "whole"}, card : Cards,
                      under : ClubKeys \cup {"absent"}]
        /\ Idle \in [at : {"idle", "club", "card", "side", "key"},
                     pair : Pairs \cup {NoPair}, member : Names \cup {BadName}]
    BY BlankIsCard DEF NoDoc, Idle
  <2> QED
    BY <2>1, <2>2 DEF Init, TypeOK
<1>2. CmdOK /\ DocOK /\ CardHasItsKey
  BY DEF Init, Idle, NoDoc, CmdOK, DocOK, CardHasItsKey
<1> QED
  BY <1>1, <1>2 DEF DeskInv

\* The types of the gate's variables through the steps of a document.
LEMMA SignKeepsTypes ==
    ASSUME GateTypeOK, NEW c \in Cards, NEW who \in {"line", "cut", "issue", "later"},
           NEW keys \in SUBSET Pairs, NEW bytes \in SUBSET Cards, Sign(c, who, keys, bytes)
    PROVE  GateTypeOK'
BY DEF Sign, GateTypeOK, Texts

LEMMA WorkerAnswers ==
    ASSUME NEW c, NEW s, NEW by
    PROVE  WorkerGate(c, s, by) \in Verdicts
BY DEF WorkerGate, WorkerVerdict, MemberSig, Verdicts

LEMMA ToolAnswers ==
    ASSUME NEW c, NEW s, NEW by
    PROVE  ToolGate(c, s, by) \in Verdicts
BY DEF ToolGate, ToolVerdict, MemberSig, Verdicts

LEMMA GateKeepsTypes == GateTypeOK /\ GateNext => GateTypeOK'
<1> SUFFICES ASSUME GateTypeOK, GateNext PROVE GateTypeOK'
  OBVIOUS
<1>1. ASSUME NEW f \in DOMAIN Fields, Edit(f) PROVE GateTypeOK'
  <2>1. PICK v \in Fields[f] : card' = [card EXCEPT ![f] = v]
    BY <1>1 DEF Edit
  <2>2. card' \in Cards
    BY <2>1 DEF GateTypeOK, Cards, Fields
  <2> QED
    BY <1>1, <2>2 DEF Edit, GateTypeOK
<1>2. ASSUME NEW s \in EditedSigs, EditSig(s)
      PROVE  GateTypeOK'
  <2>1. s \in [signed : SUBSET Cards, text : Texts]
    BY DEF GateTypeOK, EditedSigs, Texts
  <2> QED
    BY <1>2, <2>1 DEF EditSig, GateTypeOK
<1>3. ASSUME NEW who \in {"client", "other"}, NEW c \in Cards, NEW k \in Pairs \cup {NoPair},
             Send(who, c, k)
      PROVE  GateTypeOK'
  BY <1>3 DEF Send, GateTypeOK
<1>4. CASE SendByClient
  <2>1. PICK k \in held : Send("client", JsNumbers(card), k)
    BY <1>4 DEF SendByClient
  <2>2. JsNumbers(card) \in Cards /\ k \in Pairs
    BY JsNumbersFields DEF GateTypeOK
  <2> QED
    BY <1>3, <2>1, <2>2
<1>5. CASE SendByOther
  <2>1. PICK k \in held \cup {NoPair} : Send("other", card, k)
    BY <1>5 DEF SendByOther
  <2>2. card \in Cards /\ k \in Pairs \cup {NoPair}
    BY DEF GateTypeOK
  <2> QED
    BY <1>3, <2>1, <2>2
<1>6. CASE Judge
  BY <1>6, WorkerAnswers, ToolAnswers DEF Judge, GateTypeOK
<1> QED
  BY <1>1, <1>2, <1>4, <1>5, <1>6 DEF GateNext

\* The steps of a document leave the directory alone, and the commands leave the
\* document alone until it is handed out.
LEMMA DeskKept == DeskInv /\ GateTypeOK' /\ UNCHANGED deskVars => DeskInv'
<1> SUFFICES ASSUME DeskInv, GateTypeOK', UNCHANGED deskVars PROVE DeskInv'
  OBVIOUS
<1>1. TypeOK'
  BY DEF DeskInv, TypeOK, deskVars
<1>2. CmdOK' /\ DocOK' /\ CardHasItsKey'
  BY DEF DeskInv, CmdOK, DocOK, CardHasItsKey, deskVars
<1> QED
  BY <1>1, <1>2 DEF DeskInv

LEMMA GateKept == GateTypeOK /\ UNCHANGED gateVars => GateTypeOK'
BY DEF GateTypeOK, gateVars

LEMMA IdleIsTyped ==
    /\ \A a \in {"idle", "club"} : [Idle EXCEPT !.at = a] \in
          [at : {"idle", "club", "card", "side", "key"}, pair : Pairs \cup {NoPair},
           member : Names \cup {BadName}]
    /\ Idle \in [at : {"idle", "club", "card", "side", "key"}, pair : Pairs \cup {NoPair},
                 member : Names \cup {BadName}]
    /\ Idle.at = "idle" /\ [Idle EXCEPT !.at = "club"].at = "club"
BY DEF Idle

LEMMA OpenClubKeysStep == DeskInv /\ OpenClubKeys => DeskInv'
<1> SUFFICES ASSUME DeskInv, OpenClubKeys PROVE DeskInv'
  OBVIOUS
<1>1. TypeOK'
  BY GateKept, IdleIsTyped DEF DeskInv, TypeOK, OpenClubKeys
<1>2. CmdOK' /\ DocOK' /\ CardHasItsKey'
  BY IdleIsTyped, DeskAssumption DEF DeskInv, CmdOK, DocOK, CardHasItsKey, OpenClubKeys
<1> QED
  BY <1>1, <1>2 DEF DeskInv

LEMMA WriteClubKeysStep ==
    ASSUME DeskInv, NEW g \in ClubKeys, WriteClubKeys(g) PROVE DeskInv'
<1>1. TypeOK'
  BY GateKept, IdleIsTyped DEF DeskInv, TypeOK, WriteClubKeys
<1>2. doc.state # "whole"
  BY DeskAssumption DEF DeskInv, CmdOK, DocOK, WriteClubKeys, Running
<1>3. CmdOK' /\ DocOK' /\ CardHasItsKey'
  BY <1>2, IdleIsTyped DEF DeskInv, CmdOK, DocOK, CardHasItsKey, WriteClubKeys
<1> QED
  BY <1>1, <1>3 DEF DeskInv

LEMMA OpenCardStep ==
    ASSUME DeskInv, NEW n \in Names, NEW p \in Pairs, OpenCard(n, p),
           p = Own \/ keyfile = "absent"
    PROVE  DeskInv'
<1>1. TornDoc \in [state : {"absent", "torn", "whole"}, card : Cards,
                   under : ClubKeys \cup {"absent"}] /\ TornDoc.state = "torn"
  BY BlankIsCard DEF TornDoc, NoDoc
<1>2. TypeOK'
  BY <1>1, GateKept DEF DeskInv, TypeOK, OpenCard
<1>3. cmd' = [at |-> "card", pair |-> p, member |-> n] /\ keyfile' = keyfile
      /\ club' = club /\ club \in ClubKeys
  BY DEF OpenCard
<1>4. CmdOK'
  BY <1>3, DeskAssumption DEF CmdOK
<1>5. DocOK' /\ CardHasItsKey'
  BY <1>1 DEF DeskInv, DocOK, CardHasItsKey, OpenCard
<1> QED
  BY <1>2, <1>4, <1>5 DEF DeskInv

LEMMA WriteCardStep == DeskInv /\ WriteCard => DeskInv'
<1> SUFFICES ASSUME DeskInv, WriteCard PROVE DeskInv'
  OBVIOUS
<1> DEFINE c == LineCard(cmd.member, cmd.pair)
<1>1. club \in ClubKeys /\ cmd.pair \in Pairs /\ cmd.member \in Names
  BY DEF DeskInv, CmdOK, WriteCard, Running
<1>2. IsLineCard(c) /\ c \in Cards
  BY <1>1, LineCardIsOne DEF IsLineCard
<1>3. doc' = [state |-> "whole", card |-> c, under |-> club] /\ club' = club
      /\ keyfile' = keyfile /\ kept' = kept
  BY DEF WriteCard
<1>4. DocOK'
  <2> HIDE DEF c
  <2> QED
    BY <1>1, <1>2, <1>3 DEF DocOK
<1>5. doc' \in [state : {"absent", "torn", "whole"}, card : Cards,
               under : ClubKeys \cup {"absent"}]
  <2> HIDE DEF c
  <2> QED
    BY <1>1, <1>2, <1>3
<1>6. CASE cmd.pair = Own
  <2>1. cmd' = Idle /\ finished' = finished \cup {Own}
    BY <1>6 DEF WriteCard
  <2>2. TypeOK'
    BY <1>3, <1>5, <2>1, GateKept, IdleIsTyped, DeskAssumption
    DEF DeskInv, TypeOK, WriteCard
  <2>3. CmdOK' /\ CardHasItsKey'
    BY <1>3, <2>1, IdleIsTyped DEF DeskInv, CmdOK, CardHasItsKey
  <2> QED
    BY <1>4, <2>2, <2>3 DEF DeskInv
<1>7. CASE cmd.pair # Own
  <2>1. cmd' = [cmd EXCEPT !.at = "side"] /\ finished' = finished
    BY <1>7 DEF WriteCard
  <2>2. /\ cmd' \in [at : {"idle", "club", "card", "side", "key"},
                     pair : Pairs \cup {NoPair}, member : Names \cup {BadName}]
        /\ cmd'.at = "side" /\ cmd'.pair = cmd.pair /\ cmd'.member = cmd.member
    BY <2>1 DEF DeskInv, TypeOK
  <2>3. TypeOK'
    BY <1>3, <1>5, <2>1, <2>2, GateKept DEF DeskInv, TypeOK, WriteCard
  <2>4. keyfile \notin Pairs
    BY <1>7 DEF DeskInv, CmdOK, WriteCard, Running
  <2>5. CmdOK' /\ CardHasItsKey'
    BY <1>1, <1>3, <1>7, <2>1, <2>2, <2>4 DEF DeskInv, CmdOK, CardHasItsKey
  <2> QED
    BY <1>4, <2>3, <2>5 DEF DeskInv
<1> QED
  BY <1>6, <1>7

LEMMA OpenKeyfileStep == DeskInv /\ OpenKeyfile => DeskInv'
<1> SUFFICES ASSUME DeskInv, OpenKeyfile PROVE DeskInv'
  OBVIOUS
<1>1. /\ cmd' \in [at : {"idle", "club", "card", "side", "key"},
                   pair : Pairs \cup {NoPair}, member : Names \cup {BadName}]
      /\ cmd'.at = "key" /\ cmd'.pair = cmd.pair /\ cmd'.member = cmd.member
  BY DEF DeskInv, TypeOK, OpenKeyfile
<1>2. TypeOK'
  BY <1>1, GateKept DEF DeskInv, TypeOK, OpenKeyfile
<1>3. cmd.pair \in Pairs /\ cmd.member \in Names /\ cmd.pair # Own /\ club \in ClubKeys
      /\ keyfile \notin Pairs
  BY DEF DeskInv, CmdOK, OpenKeyfile, Running
<1>4. keyfile' \notin Pairs
  BY DeskAssumption DEF OpenKeyfile
<1>5. CmdOK'
  BY <1>1, <1>3, <1>4 DEF CmdOK, OpenKeyfile
<1>6. DocOK'
  BY DEF DeskInv, DocOK, OpenKeyfile
<1>7. CardHasItsKey'
  BY <1>3 DEF DeskInv, TypeOK, CardHasItsKey, OpenKeyfile
<1> QED
  BY <1>2, <1>5, <1>6, <1>7 DEF DeskInv

\* The one step that finishes with a keypair in the directory: the others are kept.
LEMMA WriteKeyfileStep == DeskInv /\ WriteKeyfile => DeskInv'
<1> SUFFICES ASSUME DeskInv, WriteKeyfile PROVE DeskInv'
  OBVIOUS
<1>1. cmd.pair \in Pairs /\ cmd.pair # Own /\ keyfile \notin Pairs
  BY DEF DeskInv, CmdOK, WriteKeyfile, Running
<1>2. TypeOK'
  BY <1>1, GateKept, IdleIsTyped DEF DeskInv, TypeOK, WriteKeyfile
<1>3. CmdOK' /\ DocOK'
  BY IdleIsTyped DEF DeskInv, CmdOK, DocOK, WriteKeyfile
<1>4. CardHasItsKey'
  BY <1>1 DEF DeskInv, TypeOK, CardHasItsKey, WriteKeyfile
<1> QED
  BY <1>2, <1>3, <1>4 DEF DeskInv

LEMMA CutShortStep == DeskInv /\ CutShort => DeskInv'
<1> SUFFICES ASSUME DeskInv, CutShort PROVE DeskInv'
  OBVIOUS
<1>1. TypeOK'
  BY GateKept, IdleIsTyped DEF DeskInv, TypeOK, CutShort, files
<1>2. CmdOK' /\ DocOK' /\ CardHasItsKey'
  BY IdleIsTyped DEF DeskInv, CmdOK, DocOK, CardHasItsKey, CutShort, files
<1> QED
  BY <1>1, <1>2 DEF DeskInv

LEMMA ClearTornStep == DeskInv /\ ClearTorn => DeskInv'
<1> SUFFICES ASSUME DeskInv, ClearTorn PROVE DeskInv'
  OBVIOUS
<1>1. TypeOK'
  BY GateKept DEF DeskInv, TypeOK, ClearTorn
<1>2. CmdOK'
  BY DEF DeskInv, CmdOK, ClearTorn, Running
<1>3. DocOK' /\ CardHasItsKey'
  BY DeskAssumption DEF DeskInv, TypeOK, DocOK, CardHasItsKey, ClearTorn
<1> QED
  BY <1>1, <1>2, <1>3 DEF DeskInv

LEMMA MoveKeyfileStep == DeskInv /\ MoveKeyfile => DeskInv'
<1> SUFFICES ASSUME DeskInv, MoveKeyfile PROVE DeskInv'
  OBVIOUS
<1>1. TypeOK'
  BY GateKept DEF DeskInv, TypeOK, MoveKeyfile
<1>2. CmdOK' /\ DocOK' /\ CardHasItsKey'
  BY DEF DeskInv, CmdOK, DocOK, CardHasItsKey, MoveKeyfile, Running
<1> QED
  BY <1>1, <1>2 DEF DeskInv

LEMMA LoadableArePairs == DeskInv => Loadable \in SUBSET Pairs
BY DeskAssumption DEF DeskInv, TypeOK, Loadable

LEMMA HandOutTypes == DeskInv /\ HandOut => GateTypeOK'
<1> SUFFICES ASSUME DeskInv, HandOut PROVE GateTypeOK'
  OBVIOUS
<1>1. doc.card \in Cards /\ CardBytes(doc.card) \in Cards /\ Loadable \in SUBSET Pairs
  BY CardBytesFields, LoadableArePairs DEF DeskInv, TypeOK
<1>2. SignedBytes(doc) \in SUBSET Cards
  BY <1>1 DEF SignedBytes
<1>3. (IF doc.card.key \in finished THEN "line" ELSE "cut") \in {"line", "cut", "issue", "later"}
  OBVIOUS
<1> QED
  BY <1>1, <1>2, <1>3, SignKeepsTypes DEF HandOut, DeskInv, TypeOK

LEMMA ElsewhereTypes == DeskInv /\ Elsewhere => GateTypeOK'
<1> SUFFICES ASSUME DeskInv, Elsewhere PROVE GateTypeOK'
  OBVIOUS
<1>1. PICK c \in Cards, k \in Pairs : Issue(c, k) \/ SignLater(c, k)
  BY DEF Elsewhere
<1>2. {CardBytes(c)} \in SUBSET Cards /\ {k} \in SUBSET Pairs
  BY CardBytesFields
<1> QED
  BY <1>1, <1>2, SignKeepsTypes DEF Issue, SignLater, DeskInv, TypeOK

LEMMA DeskStep == DeskInv /\ [Next]_vars => DeskInv'
<1> SUFFICES ASSUME DeskInv, [Next]_vars PROVE DeskInv'
  OBVIOUS
<1>1. CASE OpenClubKeys
  BY <1>1, OpenClubKeysStep
<1>2. ASSUME NEW g \in ClubKeys, WriteClubKeys(g) PROVE DeskInv'
  BY <1>2, WriteClubKeysStep
<1>3. ASSUME NEW n \in Names, IssueForKey(n) PROVE DeskInv'
  BY <1>3, OpenCardStep, DeskAssumption DEF IssueForKey
<1>4. ASSUME NEW n \in Names, NEW p \in Pairs, IssueWithKeygen(n, p) PROVE DeskInv'
  BY <1>4, OpenCardStep DEF IssueWithKeygen
<1>5. CASE WriteCard \/ OpenKeyfile \/ WriteKeyfile
  BY <1>5, WriteCardStep, OpenKeyfileStep, WriteKeyfileStep
<1>6. CASE CutShort \/ ClearTorn \/ MoveKeyfile
  BY <1>6, CutShortStep, ClearTornStep, MoveKeyfileStep
<1>7. CASE HandOut
  BY <1>7, HandOutTypes, DeskKept DEF HandOut
<1>8. CASE Elsewhere /\ UNCHANGED deskVars
  BY <1>8, ElsewhereTypes, DeskKept
<1>9. CASE GateNext /\ UNCHANGED deskVars
  BY <1>9, GateKeepsTypes, DeskKept DEF DeskInv, TypeOK
<1>10. CASE UNCHANGED vars
  BY <1>10, GateKept, DeskKept DEF vars, DeskInv, TypeOK
<1> QED
  BY <1>1, <1>2, <1>3, <1>4, <1>5, <1>6, <1>7, <1>8, <1>9, <1>10 DEF Next

\* The files, the running command and the document stay in their types, however the
\* commands are cut short (club.py init_club_keys, _cmd_issue).
THEOREM DeskTypeCorrect == Spec => []TypeOK
<1>1. DeskInv => TypeOK
  BY DEF DeskInv
<1> QED
  BY <1>1, DeskInit, DeskStep, PTL DEF Spec

\* No sequence of commands, whole or cut short, takes away the keypair of a member
\* whose issue succeeded (club.py _cmd_issue).
THEOREM CardHasItsKeyHolds == Spec => []CardHasItsKey
<1>1. DeskInv => CardHasItsKey
  BY DEF DeskInv
<1> QED
  BY <1>1, DeskInit, DeskStep, PTL DEF Spec

(***************************************************************************)
(* A document's way, from whoever signed it to the two answers.            *)
(***************************************************************************)

SentOK ==
    /\ at \in {"desk", "file", "edited"} => sender = "none" /\ signer = NoPair
    /\ signer \in held \cup {NoPair}
    /\ sender = "client" => card.serial # "float" /\ card.extra # "float"

AnsweredOK ==
    /\ at # "judged" => worker = "none" /\ tool = "none"
    /\ at = "judged" => /\ worker = WorkerGate(card, sig, signer)
                        /\ tool = ToolGate(card, sig, signer)

\* Nobody but the club adds to what was signed; a card whose issue succeeded was signed
\* with the key the coordinator gates by, and given out with its keypair.
SignedOK ==
    /\ sig.signed \subseteq made.signed /\ made.signed \subseteq {CardBytes(made.card)}
    /\ desk = "line" => /\ IsLineCard(made.card) /\ made.card.key \in held
                        /\ made.signed = {CardBytes(made.card)}

WayOK == SentOK /\ AnsweredOK /\ SignedOK

LEMMA WayInit == Init => WayOK
BY DEF Init, GateInit, WayOK, SentOK, AnsweredOK, SignedOK

LEMMA SignStep ==
    ASSUME WayOK, at = "desk", NEW c \in Cards, NEW who, NEW keys,
           NEW bytes \in SUBSET {CardBytes(c)}, Sign(c, who, keys, bytes),
           who = "line" => /\ IsLineCard(c) /\ c.key \in keys
                           /\ bytes = {CardBytes(c)}
    PROVE  WayOK'
<1>1. /\ at' = "file" /\ desk' = who /\ card' = c /\ held' = keys
      /\ made' = [card |-> c, signed |-> bytes] /\ sig' = [signed |-> bytes, text |-> "padded"]
      /\ sender' = sender /\ signer' = signer /\ worker' = worker /\ tool' = tool
  BY DEF Sign
<1>2. made'.card = c /\ made'.signed = bytes /\ sig'.signed = bytes
  BY <1>1
<1>3. SentOK'
  BY <1>1 DEF WayOK, SentOK
<1>4. AnsweredOK'
  BY <1>1 DEF WayOK, AnsweredOK
<1>5. SignedOK'
  BY <1>1, <1>2 DEF SignedOK
<1> QED
  BY <1>3, <1>4, <1>5 DEF WayOK

LEMMA HandOutStep == DeskInv /\ WayOK /\ HandOut => WayOK'
<1> SUFFICES ASSUME DeskInv, WayOK, HandOut PROVE WayOK'
  OBVIOUS
<1>1. IsLineCard(doc.card) /\ doc.under = club /\ doc.card \in Cards
  BY DEF DeskInv, DocOK, HandOut, IsLineCard
<1>2. SignedBytes(doc) = {CardBytes(doc.card)}
  BY <1>1 DEF SignedBytes
<1>3. doc.card.key \in finished => doc.card.key \in Loadable
  BY <1>1 DEF DeskInv, CardHasItsKey, Loadable, IsLineCard
<1> DEFINE who == IF doc.card.key \in finished THEN "line" ELSE "cut"
<1>4. who = "line" => doc.card.key \in Loadable
  BY <1>3
<1>5. at = "desk" /\ Sign(doc.card, who, Loadable, SignedBytes(doc))
  BY DEF HandOut, Running
<1> HIDE DEF who
<1> QED
  BY <1>1, <1>2, <1>4, <1>5, SignStep

LEMMA ElsewhereStep == WayOK /\ Elsewhere => WayOK'
<1> SUFFICES ASSUME WayOK, Elsewhere PROVE WayOK'
  OBVIOUS
<1>1. PICK c \in Cards, k \in Pairs : Issue(c, k) \/ SignLater(c, k)
  BY DEF Elsewhere
<1>2. PICK who \in {"issue", "later"} : Sign(c, who, {k}, {CardBytes(c)}) /\ at = "desk"
  BY <1>1 DEF Issue, SignLater
<1> QED
  BY <1>2, SignStep

LEMMA GateStep == GateTypeOK /\ WayOK /\ GateNext => WayOK'
<1> SUFFICES ASSUME GateTypeOK, WayOK, GateNext PROVE WayOK'
  OBVIOUS
<1>1. ASSUME NEW f \in DOMAIN Fields, Edit(f) PROVE WayOK'
  BY <1>1 DEF Edit, WayOK, SentOK, AnsweredOK, SignedOK
<1>2. ASSUME NEW s \in EditedSigs, EditSig(s)
      PROVE  WayOK'
  <2>1. s.signed \subseteq sig.signed
    BY DEF GateTypeOK, EditedSigs
  <2> QED
    BY <1>2, <2>1 DEF EditSig, WayOK, SentOK, AnsweredOK, SignedOK
<1>3. ASSUME NEW who \in {"client", "other"}, NEW c, NEW k \in held \cup {NoPair},
             Send(who, c, k), who = "client" => c.serial # "float" /\ c.extra # "float"
      PROVE  WayOK'
  BY <1>3 DEF Send, WayOK, SentOK, AnsweredOK, SignedOK
<1>4. CASE SendByClient
  <2>1. PICK k \in held : Send("client", JsNumbers(card), k)
    BY <1>4 DEF SendByClient
  <2>2. card \in Cards
    BY DEF GateTypeOK
  <2>3. JsNumbers(card).serial # "float" /\ JsNumbers(card).extra # "float"
    BY <2>2, JsNumbersFields DEF Rewritten
  <2> QED
    BY <1>3, <2>1, <2>3
<1>5. CASE SendByOther
  <2>1. PICK k \in held \cup {NoPair} : Send("other", card, k)
    BY <1>5 DEF SendByOther
  <2> QED
    BY <1>3, <2>1
<1>6. CASE Judge
  BY <1>6 DEF Judge, WayOK, SentOK, AnsweredOK, SignedOK
<1> QED
  BY <1>1, <1>2, <1>4, <1>5, <1>6 DEF GateNext

LEMMA WayKept == WayOK /\ UNCHANGED gateVars => WayOK'
BY DEF WayOK, SentOK, AnsweredOK, SignedOK, gateVars

LEMMA WayStep == DeskInv /\ WayOK /\ [Next]_vars => WayOK'
<1> SUFFICES ASSUME DeskInv, WayOK, [Next]_vars PROVE WayOK'
  OBVIOUS
<1>1. CASE OpenClubKeys \/ \E g \in ClubKeys : WriteClubKeys(g)
  BY <1>1, WayKept DEF OpenClubKeys, WriteClubKeys
<1>2. CASE \E n \in Names : IssueForKey(n) \/ \E p \in Pairs : IssueWithKeygen(n, p)
  BY <1>2, WayKept DEF IssueForKey, IssueWithKeygen, OpenCard
<1>3. CASE WriteCard \/ OpenKeyfile \/ WriteKeyfile
  BY <1>3, WayKept DEF WriteCard, OpenKeyfile, WriteKeyfile
<1>4. CASE CutShort \/ ClearTorn \/ MoveKeyfile
  BY <1>4, WayKept DEF CutShort, ClearTorn, MoveKeyfile
<1>5. CASE HandOut
  BY <1>5, HandOutStep
<1>6. CASE Elsewhere /\ UNCHANGED deskVars
  BY <1>6, ElsewhereStep
<1>7. CASE GateNext /\ UNCHANGED deskVars
  BY <1>7, GateStep DEF DeskInv, TypeOK
<1>8. CASE UNCHANGED vars
  BY <1>8, WayKept DEF vars
<1> QED
  BY <1>1, <1>2, <1>3, <1>4, <1>5, <1>6, <1>7, <1>8 DEF Next

LEMMA Reachable == Spec => [](DeskInv /\ WayOK)
BY DeskInit, DeskStep, WayInit, WayStep, PTL DEF Spec

(***************************************************************************)
(* The answers.                                                            *)
(***************************************************************************)

\* What "ok" of the worker says of the document it was given.
LEMMA AdmittedBy ==
    ASSUME WayOK, GateTypeOK, worker = "ok"
    PROVE  /\ Parses(card) /\ WorkerTakesFields(card)
           /\ JsNumbers(card) \in sig.signed
           /\ signer = card.key /\ signer # NoPair
<1>1. worker = WorkerGate(card, sig, signer)
  BY DEF WayOK, AnsweredOK
<1>2. WorkerVerdict(card, sig) = "ok" /\ MemberSig(card, signer) = "ok"
  BY <1>1 DEF WorkerGate
<1>3. signer = card.key /\ signer # NoPair
  BY <1>2 DEF MemberSig
<1> QED
  BY <1>2, <1>3 DEF WorkerVerdict, WorkerTakesB64, CanonicalJson

\* The worker admits only what the club signed, from a holder of the keypair the card
\* names, for any cards and edits (logic.js verifyCardDocument, checkMemberSignature).
THEOREM AdmittedWasSignedHolds == Spec => []AdmittedWasSigned
<1>1. ASSUME DeskInv, WayOK PROVE AdmittedWasSigned
  <2> SUFFICES ASSUME worker = "ok"
               PROVE  JsNumbers(card) = CardBytes(made.card) /\ made.card.key \in held
    BY DEF AdmittedWasSigned
  <2>1. GateTypeOK /\ card \in Cards /\ made.card \in Cards
    BY <1>1 DEF DeskInv, TypeOK, GateTypeOK
  <2>2. JsNumbers(card) = CardBytes(made.card)
    BY <1>1, <2>1, AdmittedBy DEF WayOK, SignedOK
  <2>3. made.card.key = card.key
    BY <2>1, <2>2, JsNumbersFields, CardBytesFields
  <2> QED
    BY <1>1, <2>1, <2>2, <2>3, AdmittedBy DEF WayOK, SentOK
<1> QED
  BY <1>1, Reachable, PTL

\* What our client sends and the worker admits, the tool admits (club.py check_card).
THEOREM ToolKnowsAdmittedHolds == Spec => []ToolKnowsAdmitted
<1>1. ASSUME DeskInv, WayOK PROVE ToolKnowsAdmitted
  <2> SUFFICES ASSUME sender = "client", worker = "ok", card.key # "unpadded",
                      sig.text = "padded"
               PROVE  tool = "ok"
    BY DEF ToolKnowsAdmitted
  <2>1. GateTypeOK /\ card \in Cards /\ made.card \in Cards
    BY <1>1 DEF DeskInv, TypeOK, GateTypeOK
  <2>2. /\ Parses(card) /\ WorkerTakesFields(card) /\ JsNumbers(card) \in sig.signed
        /\ signer = card.key /\ signer # NoPair
    BY <1>1, <2>1, AdmittedBy
  <2>3. card.serial # "float"
    BY <1>1 DEF WayOK, SentOK
  <2>4. ToolTakesFields(card)
    BY <2>1, <2>2, <2>3 DEF Parses, WorkerTakesFields, WorkerTakesB64, ToolTakesFields,
                            ToolTakesB64, Cards, Fields
  <2>5. JsNumbers(card) = CardBytes(made.card)
    BY <1>1, <2>2 DEF WayOK, SignedOK
  <2>6. card.extra # "sig"
    BY <2>1, <2>5, JsNumbersFields, CardBytesFields DEF Rewritten, Cards, Fields
  <2>7. CardBytes(card) \in sig.signed
    BY <2>1, <2>2, <2>6, OneEncoding
  <2>8. ToolVerdict(card, sig) = "ok" /\ MemberSig(card, signer) = "ok"
    BY <2>2, <2>4, <2>7 DEF ToolVerdict, ToolTakesB64, MemberSig
  <2>9. tool = ToolGate(card, sig, signer)
    BY <1>1 DEF WayOK, AnsweredOK, WorkerGate
  <2> QED
    BY <2>8, <2>9 DEF ToolGate
<1> QED
  BY <1>1, Reachable, PTL

\* Where the two gates read the same text alike they answer a card of four fields with
\* one code, for any names, keypairs and edits (club.py:60-61, check_card).
THEOREM SameCodeHolds == Spec => []SameCode
<1>1. ASSUME DeskInv, WayOK PROVE SameCode
  <2> SUFFICES ASSUME sender = "client", card.extra = "none", ReadAlike(card, sig)
               PROVE  worker = tool
    BY DEF SameCode
  <2>1. card \in Cards /\ sig.text \in {"padded", "bad"} /\ card.key # "unpadded"
    BY <1>1 DEF DeskInv, TypeOK, GateTypeOK, Texts, ReadAlike
  <2>2. card.serial # "float"
    BY <1>1 DEF WayOK, SentOK
  <2>3. WorkerTakesB64(sig.text) <=> ToolTakesB64(sig.text)
    BY <2>1, CardAssumption DEF WorkerTakesB64, ToolTakesB64
  <2>4. WorkerTakesB64(card.key) <=> ToolTakesB64(card.key)
    <3>1. card.key \in Pairs \cup {"bad"}
      BY <2>1 DEF ReadAlike, Parses, Cards, Fields
    <3> QED
      BY <3>1, CardAssumption DEF WorkerTakesB64, ToolTakesB64
  <2>5. card.issued \in {"date", "bad"} /\ card.serial \in Numbers
    BY <2>1 DEF ReadAlike, Parses, Cards, Fields
  <2>6. WorkerTakesFields(card) <=> ToolTakesFields(card)
    BY <2>2, <2>4, <2>5 DEF WorkerTakesFields, ToolTakesFields, Numbers
  <2>7. ToolTakesFields(card) => CanonicalJson(card) = {CardBytes(card)}
    BY <2>1, OneEncoding DEF ToolTakesFields, CanonicalJson
  <2>8. WorkerVerdict(card, sig) = ToolVerdict(card, sig)
    BY <2>3, <2>6, <2>7 DEF ReadAlike, WorkerVerdict, ToolVerdict
  <2> QED
    BY <1>1, <2>8 DEF WayOK, AnsweredOK, WorkerGate, ToolGate
<1> QED
  BY <1>1, Reachable, PTL

\* A card whose issue succeeded is admitted with its keypair, whatever commands ran
\* before and after (club.py init_club_keys, _cmd_issue).
THEOREM HolderIsAdmittedHolds == Spec => []HolderIsAdmitted
<1>1. ASSUME DeskInv, WayOK PROVE HolderIsAdmitted
  <2> SUFFICES ASSUME desk = "line", at = "judged", card = made.card,
                      sig = [signed |-> made.signed, text |-> "padded"]
               PROVE  /\ made.card.key \in held
                      /\ signer = made.card.key => worker = "ok" /\ tool = "ok"
    BY DEF HolderIsAdmitted
  <2>1. /\ IsLineCard(card) /\ made.card.key \in held
        /\ sig.signed = {CardBytes(card)} /\ sig.text = "padded"
    BY <1>1 DEF WayOK, SignedOK
  <2>2. Parses(card) /\ WorkerTakesFields(card) /\ ToolTakesFields(card)
    BY <2>1, CardAssumption
    DEF IsLineCard, Fields, Parses, WorkerTakesFields, WorkerTakesB64, ToolTakesFields,
        ToolTakesB64
  <2>3. CanonicalJson(card) = {CardBytes(card)}
    BY <2>1, OneEncoding DEF IsLineCard, CanonicalJson
  <2>4. WorkerVerdict(card, sig) = "ok" /\ ToolVerdict(card, sig) = "ok"
    BY <2>1, <2>2, <2>3 DEF WorkerVerdict, WorkerTakesB64, ToolVerdict, ToolTakesB64
  <2>5. signer = card.key => MemberSig(card, signer) = "ok"
    BY <2>1, CardAssumption DEF IsLineCard, MemberSig
  <2> QED
    BY <1>1, <2>1, <2>4, <2>5 DEF WayOK, AnsweredOK, WorkerGate, ToolGate
<1> QED
  BY <1>1, Reachable, PTL
===============================================================================
