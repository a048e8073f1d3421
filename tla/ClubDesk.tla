------------------------------- MODULE ClubDesk -------------------------------
(***************************************************************************)
(* The club command line, pygrid/club.py: init makes the club key, issue   *)
(* signs a card and, with --member-keygen, leaves the member's keypair     *)
(* beside it; and the way of the card from there through the two gates     *)
(* (CardGate).                                                             *)
(*                                                                         *)
(* One directory holds the three files, and one command runs at a time.    *)
(* open(path, "w") truncates and json.dump fills, so a command can be cut  *)
(* short (interrupt, full disk) with any of its files missing or torn.     *)
(* The coordinator gates by the whole key in the directory: init prints it *)
(* for CLUB_VERIFY_KEY.                                                    *)
(***************************************************************************)
EXTENDS CardGate

CONSTANTS
    Own,       \* the keypair of a member who brought a verify key, --member-key
    ClubKeys   \* the club keypairs init may come up with

ASSUME DeskAssumption ==
    /\ Own \in Pairs
    /\ \A f \in Pairs \cup ClubKeys : f \notin {"absent", "torn"}

VARIABLES
    club,      \* club.keys.json: a club keypair, "absent" or "torn"
    doc,       \* the file of --out: the card in it and the club key that signed
    keyfile,   \* member.keys.json: a keypair, "absent" or "torn"
    cmd,       \* the command that runs, by the write it is at, and its keypair
    spent,     \* history: the keypairs generated so far, of the club and of members
    finished,  \* history: members' keypairs whose issue returned 0
    kept       \* the keypairs that were moved out of the directory

files == <<club, doc, keyfile>>
deskVars == <<club, doc, keyfile, cmd, spent, finished, kept>>
vars == <<gateVars, deskVars>>

NoDoc == [state |-> "absent", card |-> Blank, under |-> "absent"]
TornDoc == [NoDoc EXCEPT !.state = "torn"]
Idle == [at |-> "idle", pair |-> NoPair, member |-> BadName]

\* The card of the command line: the clock gives the date and the serial.
LineCard(n, p) ==
    [member |-> n, key |-> p, issued |-> "date", serial |-> "int", extra |-> "none"]

TypeOK ==
    /\ GateTypeOK
    /\ club \in ClubKeys \cup {"absent", "torn"}
    /\ keyfile \in Pairs \cup {"absent", "torn"}
    /\ doc \in [state : {"absent", "torn", "whole"}, card : Cards,
               under : ClubKeys \cup {"absent"}]
    /\ cmd \in [at : {"idle", "club", "card", "side", "key"}, pair : Pairs \cup {NoPair},
                member : Names \cup {BadName}]
    /\ spent \in SUBSET (Pairs \cup ClubKeys)
    /\ finished \in SUBSET Pairs /\ kept \in SUBSET Pairs

Init ==
    /\ GateInit
    /\ club = "absent" /\ doc = NoDoc /\ keyfile = "absent"
    /\ cmd = Idle
    /\ spent = {} /\ finished = {} /\ kept = {}
-------------------------------------------------------------------------------
Running(step) == at = "desk" /\ cmd.at = step

\* Mutated form: init does not look for a club key first.
OpenClubKeysAnyway ==
    /\ Running("idle")
    /\ club' = "torn"
    /\ cmd' = [Idle EXCEPT !.at = "club"]
    /\ UNCHANGED <<doc, keyfile, spent, finished, kept, gateVars>>

\* init_club_keys: refused when the file exists, even when it is torn.
OpenClubKeys ==
    /\ Running("idle")
    /\ club = "absent" /\ club' = "torn"
    /\ cmd' = [Idle EXCEPT !.at = "club"]
    /\ UNCHANGED <<doc, keyfile, spent, finished, kept, gateVars>>

WriteClubKeys(g) ==
    /\ Running("club") /\ g \notin spent
    /\ club' = g /\ spent' = spent \cup {g}
    /\ cmd' = Idle
    /\ UNCHANGED <<doc, keyfile, finished, kept, gateVars>>

OpenCard(n, p) ==
    /\ Running("idle") /\ club \in ClubKeys
    /\ doc' = TornDoc
    /\ cmd' = [at |-> "card", pair |-> p, member |-> n]
    /\ spent' = spent \cup {p}
    /\ UNCHANGED <<club, keyfile, finished, kept, gateVars>>

\* issue --member-key
IssueForKey(n) == OpenCard(n, Own)

\* Mutated form: --member-keygen does not look for a keyfile first.
IssueAnyway(n, p) == p \notin spent \cup {Own} /\ OpenCard(n, p)

\* issue --member-keygen: refused while a member's keyfile is there, even a torn one.
IssueWithKeygen(n, p) ==
    /\ p \notin spent \cup {Own}
    /\ keyfile = "absent"
    /\ OpenCard(n, p)

\* save_card.  With --member-key that is all; otherwise the keyfile comes next.
WriteCard ==
    /\ Running("card")
    /\ doc' = [state |-> "whole", card |-> LineCard(cmd.member, cmd.pair), under |-> club]
    /\ IF cmd.pair = Own
       THEN cmd' = Idle /\ finished' = finished \cup {Own}
       ELSE cmd' = [cmd EXCEPT !.at = "side"] /\ UNCHANGED finished
    /\ UNCHANGED <<club, keyfile, spent, kept, gateVars>>

OpenKeyfile ==
    /\ Running("side")
    /\ keyfile' = "torn"
    /\ cmd' = [cmd EXCEPT !.at = "key"]
    /\ UNCHANGED <<club, doc, spent, finished, kept, gateVars>>

WriteKeyfile ==
    /\ Running("key")
    /\ keyfile' = cmd.pair
    /\ cmd' = Idle /\ finished' = finished \cup {cmd.pair}
    /\ UNCHANGED <<club, doc, spent, kept, gateVars>>

\* The command ends where it is: its keypair was in its memory only.
CutShort ==
    /\ at = "desk" /\ cmd.at # "idle"
    /\ cmd' = Idle
    /\ UNCHANGED <<files, spent, finished, kept, gateVars>>

\* Someone clears away a file that says nothing, or moves a keyfile somewhere safe.
ClearTorn ==
    /\ Running("idle") /\ "torn" \in {club, keyfile}
    /\ club' = IF club = "torn" THEN "absent" ELSE club
    /\ keyfile' = IF keyfile = "torn" THEN "absent" ELSE keyfile
    /\ UNCHANGED <<doc, cmd, spent, finished, kept, gateVars>>

MoveKeyfile ==
    /\ Running("idle") /\ keyfile \in Pairs
    /\ kept' = kept \cup {keyfile} /\ keyfile' = "absent"
    /\ UNCHANGED <<club, doc, cmd, spent, finished, gateVars>>

\* The keypairs a client can load: a torn keyfile raises.
Loadable == kept \cup ({keyfile} \cap Pairs) \cup {Own}

\* What its signature is worth to the coordinator.
SignedBytes(d) == IF d.under = club THEN {CardBytes(d.card)} ELSE {}

\* A member is given the card and whatever keypairs there are: a torn card raises.
HandOut ==
    /\ Running("idle") /\ doc.state = "whole"
    /\ Sign(doc.card, IF doc.card.key \in finished THEN "line" ELSE "cut",
            Loadable, SignedBytes(doc))
    /\ UNCHANGED deskVars

\* Another program signs, with no directory about.
Elsewhere ==
    /\ at = "desk" /\ spent = {} /\ club = "absent" /\ cmd = Idle
    /\ \E c \in Cards, k \in Pairs : Issue(c, k) \/ SignLater(c, k)

Next ==
    \/ OpenClubKeys \/ \E g \in ClubKeys : WriteClubKeys(g)
    \/ \E n \in Names : IssueForKey(n) \/ \E p \in Pairs : IssueWithKeygen(n, p)
    \/ WriteCard \/ OpenKeyfile \/ WriteKeyfile
    \/ CutShort \/ ClearTorn \/ MoveKeyfile
    \/ HandOut
    \/ Elsewhere /\ UNCHANGED deskVars
    \/ GateNext /\ UNCHANGED deskVars

Spec == Init /\ [][Next]_vars
-------------------------------------------------------------------------------
\* A member whose issue succeeded never loses the keypair: no later command, whole or cut
\* short, takes away the only file that holds it (club.py _cmd_issue, the check before
\* the first write).
CardHasItsKey == \A p \in finished \ {Own} : keyfile = p \/ p \in kept

\* The card of an issue that succeeded can be used, however many commands ran before it
\* and after it: its holder has the keypair, and both gates admit what our client sends
\* with it (club.py init_club_keys: a club key is never made anew).
HolderIsAdmitted ==
    /\ desk = "line" /\ sender = "client" /\ at = "judged"
    /\ card = made.card /\ sig = [signed |-> made.signed, text |-> "padded"]
    => /\ made.card.key \in held
       /\ signer = made.card.key => worker = "ok" /\ tool = "ok"
===============================================================================
