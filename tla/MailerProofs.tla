----------------------------- MODULE MailerProofs -----------------------------
(***************************************************************************)
(* Who owns a mail, for every number of mails and slots, every length of a  *)
(* mail, every buffer of libcurl and every outcome of its calls.            *)
(***************************************************************************)
EXTENDS Mailer, FiniteSetTheorems, SequenceLemmas

USE NoneIsNoMail DEF mailer, owners, texts

Transfers == {"out", "running", "eof", "ended", "failed", "cleared"}

(* A mail with recipients sits in a slot exactly while the mailer owns it,  *)
(* and curl only works on such mails. Mails without recipients say nothing: *)
(* what their double deletion disturbs is their own.                        *)
Owned(m) == caller[m] = "gave" /\ deletions[m] = 0
MailInv(m) ==
    /\ deletions[m] \in {0, 1}
    /\ caller[m] \in {"none", "holds"} => deletions[m] = 0
    /\ Owned(m) => \E s \in Slots : SlotsOf(m) = {s}
    /\ ~Owned(m) => SlotsOf(m) = {}
    /\ IsRunning(m) => Owned(m)
OwnInv ==
    /\ setup \in Setups
    /\ caller \in [Mails -> {"none", "holds", "gave", "dropped"}]
    /\ deletions = [m \in Mails |-> deletions[m]]
    /\ transfers \in [Slots -> Mails \cup {None}]
    /\ easy \in [Mails -> Transfers]
    /\ \A m \in Mails : setup[m].rcpt => MailInv(m)

(* What TLC checks follows. *)
LEMMA OwnInvImplies == OwnInv => OneOwner
<1> SUFFICES ASSUME OwnInv, NEW m \in Mails, setup[m].rcpt
             PROVE  /\ deletions[m] <= 1
                    /\ Cardinality(SlotsOf(m)) = IF caller[m] = "gave" /\ ~Deleted(m) THEN 1 ELSE 0
                    /\ IsRunning(m) => SlotsOf(m) # {}
  BY DEF OneOwner
<1>1. MailInv(m)
  BY DEF OwnInv
<1>2. deletions[m] <= 1 /\ (Owned(m) <=> caller[m] = "gave" /\ ~Deleted(m))
  BY <1>1 DEF MailInv, Owned, Deleted
<1>3. CASE Owned(m)
  <2>1. PICK s \in Slots : SlotsOf(m) = {s}
    BY <1>1, <1>3 DEF MailInv
  <2>2. Cardinality(SlotsOf(m)) = 1
    BY <2>1, FS_Singleton
  <2>3. QED BY <1>2, <1>3, <2>1, <2>2
<1>4. CASE ~Owned(m)
  <2>1. SlotsOf(m) = {} /\ ~IsRunning(m)
    BY <1>1, <1>4 DEF MailInv
  <2>2. Cardinality(SlotsOf(m)) = 0
    BY <2>1, FS_EmptySet
  <2>3. QED BY <1>2, <1>4, <2>1, <2>2
<1>5. QED BY <1>3, <1>4
-----------------------------------------------------------------------------
(* send() finds a free slot if there is one. *)
LEMMA FirstFreeType ==
    ASSUME FreeSlots # {}
    PROVE  FirstFree \in FreeSlots
<1> DEFINE Below == {ss \in Nat \X Nat : ss[1] < ss[2]}
<1>1. IsWellFoundedOn(Below, Nat)
  BY NatLessThanWellFounded DEF OpToRel
<1>2. \A t, s \in Nat : ~(<<t, s>> \in Below) => s <= t
  OBVIOUS
<1>3. FreeSlots \subseteq Nat
  BY DEF FreeSlots, Slots
<1>4. PICK s \in FreeSlots : \A t \in FreeSlots : ~(<<t, s>> \in Below)
  <2> HIDE DEF Below
  <2>1. QED BY <1>1, <1>3, WFMin
<1>5. \A t \in FreeSlots : s <= t
  <2> HIDE DEF Below
  <2>1. QED BY <1>2, <1>3, <1>4
<1>6. QED BY <1>5 DEF FirstFree

(* What curl makes of a transfer is one of its states, and it works on no   *)
(* mail that it was not given.                                              *)
LEMMA CurlType ==
    ASSUME OwnInv, NEW S \in SUBSET Mails, NEW fate \in FateOf(S), curl_multi_perform(fate)
    PROVE  /\ easy' \in [Mails -> Transfers]
           /\ \A m \in Mails : IsRunning(m)' => IsRunning(m) \/ m \in S
<1>1. DOMAIN fate = S
  BY DEF FateOf
<1>2. \A m \in S : fate[m] \in {"wait", "fail", "end", "read"}
  BY DEF FateOf
<1>3. \A m \in S : AfterRead(m) \in Transfers
  BY DEF AfterRead, Transfers
<1>4. easy' = [m \in Mails |->
                 IF m \notin S THEN easy[m]
                 ELSE CASE fate[m] = "wait" -> IF easy[m] = "out" THEN "running" ELSE easy[m]
                        [] fate[m] = "fail" -> "failed"
                        [] fate[m] = "end"  -> "ended"
                        [] fate[m] = "read" -> AfterRead(m)]
  BY <1>1 DEF curl_multi_perform
<1>5. ASSUME NEW m \in Mails
      PROVE  easy'[m] \in Transfers /\ (m \notin S => easy'[m] = easy[m])
  <2>1. easy[m] \in Transfers /\ "running" \in Transfers /\ "failed" \in Transfers /\ "ended" \in Transfers
    BY DEF OwnInv, Transfers
  <2>2. CASE m \notin S
    BY <1>4, <2>1, <2>2
  <2>3. CASE m \in S
    BY <1>2, <1>3, <1>4, <2>1, <2>3
  <2>4. QED BY <2>2, <2>3
<1>6. easy' \in [Mails -> Transfers]
  BY <1>4, <1>5
<1>7. QED BY <1>5, <1>6 DEF IsRunning

(* Slots are emptied and what was in them deleted, if curl works on none.   *)
LEMMA DeleteSlotsInv ==
    ASSUME OwnInv, NEW T \in SUBSET Slots, DeleteSlots(T), UNCHANGED setup,
           easy' \in [Mails -> Transfers],
           \A m \in Mails : IsRunning(m)' => IsRunning(m) /\ \A s \in T : transfers[s] # m
    PROVE  OwnInv'
<1>1. /\ transfers' = [s \in Slots |-> IF s \in T THEN None ELSE transfers[s]]
      /\ deletions' = [m \in Mails |-> deletions[m] + Cardinality({s \in T : transfers[s] = m})]
      /\ caller' = caller
  BY DEF DeleteSlots
<1>2. transfers' \in [Slots -> Mails \cup {None}]
  BY <1>1 DEF OwnInv
<1>3. ASSUME NEW m \in Mails, setup[m].rcpt PROVE MailInv(m)'
  <2>1. MailInv(m)
    BY <1>3 DEF OwnInv
  <2>2. SlotsOf(m)' = SlotsOf(m) \ T
    BY <1>1 DEF SlotsOf, OwnInv
  <2>3. deletions'[m] = deletions[m] + Cardinality(SlotsOf(m) \cap T)
    <3>1. {s \in T : transfers[s] = m} = SlotsOf(m) \cap T
      BY DEF SlotsOf
    <3>2. QED BY <1>1, <3>1
  <2>4. IsRunning(m)' => IsRunning(m) /\ SlotsOf(m) \cap T = {}
    BY DEF SlotsOf
  <2>5. CASE SlotsOf(m) \cap T = {}
    <3>1. deletions'[m] = deletions[m]
      BY <2>1, <2>3, <2>5, FS_EmptySet DEF MailInv
    <3>2. SlotsOf(m)' = SlotsOf(m) /\ caller'[m] = caller[m]
      BY <1>1, <2>2, <2>5
    <3>3. QED BY <2>1, <2>4, <3>1, <3>2 DEF MailInv, Owned
  <2>6. CASE SlotsOf(m) \cap T # {}
    <3>1. Owned(m)
      BY <2>1, <2>6 DEF MailInv
    <3>2. PICK s \in Slots : SlotsOf(m) = {s}
      BY <2>1, <3>1 DEF MailInv
    <3>3. SlotsOf(m) \cap T = {s} /\ SlotsOf(m)' = {}
      BY <2>2, <2>6, <3>2
    <3>4. deletions'[m] = 1
      BY <2>3, <3>1, <3>3, FS_Singleton DEF Owned
    <3>5. caller'[m] = "gave" /\ ~IsRunning(m)'
      BY <1>1, <2>4, <2>6, <3>1 DEF Owned
    <3>6. QED BY <3>3, <3>4, <3>5 DEF MailInv, Owned
  <2>7. QED BY <2>5, <2>6
<1>4. deletions' = [m \in Mails |-> deletions'[m]]
  BY <1>1
<1>5. QED BY <1>1, <1>2, <1>3, <1>4 DEF OwnInv
-----------------------------------------------------------------------------
(* The application makes a mail. *)
LEMMA CreateInv ==
    ASSUME OwnInv, NEW m \in Mails, Create(m)
    PROVE  OwnInv'
<1>1. /\ caller[m] = "none" \/ (caller[m] # "holds" /\ Deleted(m) /\ SlotsOf(m) = {})
      /\ caller' = [caller EXCEPT ![m] = "holds"]
      /\ deletions' = [deletions EXCEPT ![m] = 0]
      /\ easy' = [easy EXCEPT ![m] = "out"]
      /\ UNCHANGED <<setup, transfers>>
  BY DEF Create, Gone
<1>2. /\ caller' \in [Mails -> {"none", "holds", "gave", "dropped"}]
      /\ deletions' = [k \in Mails |-> deletions'[k]]
      /\ easy' \in [Mails -> Transfers]
  BY <1>1 DEF OwnInv, Transfers
<1>3. ASSUME NEW k \in Mails, setup[k].rcpt PROVE MailInv(k)'
  <2>1. /\ MailInv(k) /\ SlotsOf(k)' = SlotsOf(k)
        /\ caller'[k] = IF k = m THEN "holds" ELSE caller[k]
        /\ deletions'[k] = IF k = m THEN 0 ELSE deletions[k]
        /\ easy'[k] = IF k = m THEN "out" ELSE easy[k]
    BY <1>1, <1>3 DEF OwnInv, SlotsOf
  <2>2. CASE k = m
    <3>1. SlotsOf(k) = {}
      BY <1>1, <2>1, <2>2 DEF MailInv, Owned
    <3>2. ~IsRunning(k)' /\ ~Owned(k)'
      BY <2>1, <2>2 DEF IsRunning, Owned
    <3> QED BY <2>1, <2>2, <3>1, <3>2 DEF MailInv
  <2>3. CASE k # m
    BY <2>1, <2>3 DEF MailInv, Owned, IsRunning
  <2> QED BY <2>2, <2>3
<1>4. QED BY <1>1, <1>2, <1>3 DEF OwnInv

(* It deletes one that it still has. *)
LEMMA DropInv ==
    ASSUME OwnInv, NEW m \in Mails, Drop(m)
    PROVE  OwnInv'
<1>1. /\ caller[m] = "holds" /\ caller' = [caller EXCEPT ![m] = "dropped"]
      /\ deletions' = [deletions EXCEPT ![m] = @ + 1]
      /\ UNCHANGED <<setup, transfers, easy>>
  BY DEF Drop
<1>2. /\ caller' \in [Mails -> {"none", "holds", "gave", "dropped"}]
      /\ deletions' = [k \in Mails |-> deletions'[k]]
  BY <1>1 DEF OwnInv
<1>3. ASSUME NEW k \in Mails, setup[k].rcpt PROVE MailInv(k)'
  <2>1. /\ MailInv(k) /\ caller'[k] = IF k = m THEN "dropped" ELSE caller[k]
        /\ deletions'[k] = IF k = m THEN deletions[k] + 1 ELSE deletions[k]
    BY <1>1, <1>3 DEF OwnInv
  <2>2. SlotsOf(k)' = SlotsOf(k) /\ (IsRunning(k)' <=> IsRunning(k))
    BY <1>1 DEF SlotsOf, IsRunning
  <2>3. QED BY <1>1, <2>1, <2>2 DEF MailInv, Owned
<1>4. QED BY <1>1, <1>2, <1>3 DEF OwnInv

(* It gives one to the mailer. *)
LEMMA SendInv ==
    ASSUME OwnInv, NEW m \in Mails, Send(m)
    PROVE  OwnInv'
<1>1. caller[m] = "holds" /\ UNCHANGED <<setup, deletions>>
  BY DEF Send
<1>2. CASE UNCHANGED <<transfers, caller, easy>>
  <2>1. ASSUME NEW k \in Mails PROVE MailInv(k)' <=> MailInv(k)
    BY <1>1, <1>2 DEF MailInv, Owned, SlotsOf, IsRunning
  <2>2. QED BY <1>1, <1>2, <2>1 DEF OwnInv
<1>3. ASSUME FreeSlots # {}, transfers' = [transfers EXCEPT ![FirstFree] = m]
      PROVE  /\ transfers' \in [Slots -> Mails \cup {None}]
             /\ FirstFree \in Slots
             /\ \A k \in Mails : SlotsOf(k)' = IF k = m THEN SlotsOf(k) \cup {FirstFree} ELSE SlotsOf(k)
  <2>1. FirstFree \in Slots /\ transfers[FirstFree] = None
    BY <1>3, FirstFreeType DEF FreeSlots, Occupied
  <2> HIDE DEF FirstFree
  <2>2. QED BY <1>3, <2>1 DEF OwnInv, SlotsOf
<1>4. CASE /\ FreeSlots # {} /\ transfers' = [transfers EXCEPT ![FirstFree] = m]
           /\ ~setup[m].rcpt /\ UNCHANGED <<caller, easy>>
  <2>1. ASSUME NEW k \in Mails, setup[k].rcpt PROVE MailInv(k)'
    <3>1. MailInv(k) /\ k # m
      BY <1>4, <2>1 DEF OwnInv
    <3>2. SlotsOf(k)' = SlotsOf(k)
      BY <1>3, <1>4, <3>1
    <3>3. QED BY <1>1, <1>4, <3>1, <3>2 DEF MailInv, Owned, IsRunning
  <2>2. QED BY <1>1, <1>3, <1>4, <2>1 DEF OwnInv
<1>5. CASE /\ FreeSlots # {} /\ transfers' = [transfers EXCEPT ![FirstFree] = m]
           /\ setup[m].rcpt /\ caller' = [caller EXCEPT ![m] = "gave"]
           /\ \E fate \in FateOf(Running \cup {m}) : curl_multi_perform(fate)
  <2>1. caller' \in [Mails -> {"none", "holds", "gave", "dropped"}]
        /\ \A k \in Mails : caller'[k] = IF k = m THEN "gave" ELSE caller[k]
    BY <1>5 DEF OwnInv
  <2>2. /\ easy' \in [Mails -> Transfers]
        /\ \A k \in Mails : IsRunning(k)' => IsRunning(k) \/ k = m
    <3>1. PICK fate \in FateOf(Running \cup {m}) : curl_multi_perform(fate)
      BY <1>5
    <3>2. Running \cup {m} \in SUBSET Mails
      BY DEF Running
    <3>3. /\ easy' \in [Mails -> Transfers]
          /\ \A k \in Mails : IsRunning(k)' => IsRunning(k) \/ k \in Running \cup {m}
      BY <3>1, <3>2, CurlType
    <3>4. QED BY <3>3 DEF Running
  <2>3. ASSUME NEW k \in Mails, setup[k].rcpt PROVE MailInv(k)'
    <3>1. MailInv(k) /\ deletions'[k] = deletions[k]
      BY <1>1, <2>3 DEF OwnInv
    <3>2. CASE k = m
      <4>1. ~Owned(k) /\ deletions[k] = 0
        BY <1>1, <3>1, <3>2 DEF MailInv, Owned
      <4>2. SlotsOf(k)' = {FirstFree} /\ FirstFree \in Slots
        BY <1>3, <1>5, <3>1, <3>2, <4>1 DEF MailInv
      <4>3. caller'[k] = "gave"
        BY <2>1, <3>2
      <4> HIDE DEF FirstFree
      <4>4. QED BY <3>1, <4>1, <4>2, <4>3 DEF MailInv, Owned
    <3>3. CASE k # m
      <4>1. SlotsOf(k)' = SlotsOf(k) /\ caller'[k] = caller[k] /\ (IsRunning(k)' => IsRunning(k))
        BY <1>3, <1>5, <2>1, <2>2, <3>3
      <4>2. QED BY <3>1, <4>1 DEF MailInv, Owned
    <3>4. QED BY <3>2, <3>3
  <2>4. QED BY <1>1, <1>3, <1>5, <2>1, <2>2, <2>3 DEF OwnInv
<1>6. QED BY <1>2, <1>4, <1>5 DEF Send

(* All slots are emptied by clear() and by the destructor. *)
LEMMA EmptiedInv ==
    ASSUME OwnInv, DeleteSlots(Occupied), UNCHANGED setup,
           easy' = [m \in Mails |-> IF IsRunning(m) THEN "cleared" ELSE easy[m]]
    PROVE  OwnInv'
<1>1. Occupied \in SUBSET Slots
  BY DEF Occupied
<1>2. easy' \in [Mails -> Transfers]
  BY DEF OwnInv, Transfers
<1>3. \A m \in Mails : ~IsRunning(m)'
  BY DEF IsRunning
<1>4. QED BY <1>1, <1>2, <1>3, DeleteSlotsInv

(* perform() waits, lets curl work, and collects. *)
LEMMA PerformWorksInv ==
    ASSUME OwnInv, PerformWorks
    PROVE  OwnInv'
<1>1. UNCHANGED setup
  BY DEF PerformWorks
<1>2. /\ easy' \in [Mails -> Transfers]
      /\ \A m \in Mails : IsRunning(m)' => IsRunning(m)
  <2>1. PICK fate \in FateOf(Running) : curl_multi_perform(fate)
    BY DEF PerformWorks
  <2>2. Running \in SUBSET Mails
    BY DEF Running
  <2>3. /\ easy' \in [Mails -> Transfers]
        /\ \A m \in Mails : IsRunning(m)' => IsRunning(m) \/ m \in Running
    BY <2>1, <2>2, CurlType
  <2>4. QED BY <2>3 DEF Running
<1>3. CASE UNCHANGED <<transfers, caller, deletions>>
  <2>1. ASSUME NEW m \in Mails, MailInv(m) PROVE MailInv(m)'
    <3>1. SlotsOf(m)' = SlotsOf(m) /\ (Owned(m)' <=> Owned(m))
      BY <1>3 DEF SlotsOf, Owned
    <3>2. QED BY <1>2, <1>3, <2>1, <3>1 DEF MailInv
  <2>2. QED BY <1>1, <1>2, <1>3, <2>1 DEF OwnInv
<1>4. CASE DeleteSlots(EndedSlots)
  <2>1. EndedSlots \in SUBSET Slots
    BY DEF EndedSlots, Occupied
  <2>2. \A m \in Mails : IsRunning(m)' => \A s \in EndedSlots : transfers[s] # m
    BY DEF EndedSlots, IsRunning
  <2>3. QED BY <1>1, <1>2, <1>4, <2>1, <2>2, DeleteSlotsInv
<1>5. QED BY <1>3, <1>4 DEF PerformWorks
-----------------------------------------------------------------------------
(* It holds throughout.                                                     *)
LEMMA AlwaysOwned == Spec => []OwnInv
<1>1. Init => OwnInv
  <2> SUFFICES ASSUME Init PROVE OwnInv
    OBVIOUS
  <2>1. ASSUME NEW m \in Mails PROVE MailInv(m)
    BY DEF Init, MailInv, Owned, SlotsOf, IsRunning
  <2>2. easy \in [Mails -> Transfers]
    BY DEF Init, Transfers
  <2>3. QED BY <2>1, <2>2 DEF Init, OwnInv
<1>2. OwnInv /\ [Next]_vars => OwnInv'
  <2> SUFFICES ASSUME OwnInv, [Next]_vars PROVE OwnInv'
    OBVIOUS
  <2>1. ASSUME NEW m \in Mails, Create(m) \/ Drop(m) \/ Send(m) PROVE OwnInv'
    BY <2>1, CreateInv, DropInv, SendInv
  <2>2. ASSUME UNCHANGED <<setup, transfers, caller, deletions, easy>> PROVE OwnInv'
    BY <2>2 DEF OwnInv, MailInv, Owned, SlotsOf, IsRunning
  <2>3. ASSUME NEW m \in Mails, SendGone(m) PROVE OwnInv'
    BY <2>2, <2>3 DEF SendGone
  <2>4. CASE PerformClears \/ PerformFails \/ Destroy
    BY <2>4, EmptiedInv DEF PerformClears, PerformFails, Clear, Destroy
  <2>5. CASE PerformWorks
    BY <2>5, PerformWorksInv
  <2>6. CASE UNCHANGED vars
    BY <2>2, <2>6 DEF vars
  <2>7. QED BY <2>1, <2>3, <2>4, <2>5, <2>6 DEF Next, perform
<1>3. QED BY <1>1, <1>2, PTL DEF Spec

(* A mail with recipients never has two owners and is deleted once at most, *)
(* whatever the application, the mail server and libcurl do                 *)
(* (SmtpMailer::send, perform, clear, ~SmtpMailer).                         *)
THEOREM MailOwned == Spec => []OneOwner
BY AlwaysOwned, OwnInvImplies, PTL
-----------------------------------------------------------------------------
(* How far the text of a mail was handed out *)

Chars == (Mails \X Nat \X Nat) \cup {Uninitialised, Nul}
Fields == {"header_sent", "data_sent", "read_offset", "sent"}

(* A body is encoded in full or not at all, and encoding it once more does  *)
(* not make it shorter.                                                     *)
BodyInv ==
    /\ scratch \in Seq(Chars) /\ encodings \in [Mails -> 0..MaxSends]
    /\ body_buffer = [m \in Mails |-> body_buffer[m]]
    /\ \A m \in Mails : body_buffer[m] \in Seq(Chars) /\ Len(body_buffer[m]) \in {0, EncodedSize(m)}

(* read_offset counts in the header first and in the body then, and stays   *)
(* inside either.                                                           *)
Handed(p, length) ==
    /\ DOMAIN p = Fields
    /\ p.read_offset \in Nat
    /\ p.read_offset <= IF p.header_sent THEN length ELSE HeaderSize
TextInv ==
    /\ setup \in Setups /\ BodyInv
    /\ msg = [m \in Mails |-> msg[m]]
    /\ \A m \in Mails : Handed(msg[m], Len(body_buffer[m]))

LEMMA SetupType ==
    ASSUME setup \in Setups, NEW m \in Mails
    PROVE  setup[m].size \in Nat /\ setup[m].buffer \in Nat /\ EncodedSize(m) \in Nat
<1>1. setup[m] \in [size : Nat, rcpt : BOOLEAN, buffer : Nat \ {0}]
  BY MailerAssumption
<1>2. \A n \in Nat : base64_size(n) \in Nat
  <2>1. ASSUME NEW max \in Nat PROVE max + (4 - (max % 4)) \in Nat
    OBVIOUS
  <2>2. \A n \in Nat : (n * 4) \div 3 \in Nat
    OBVIOUS
  <2>3. QED BY <2>1, <2>2 DEF base64_size
<1>3. QED BY <1>1, <1>2 DEF EncodedSize

(* A line break is counted in whole.                                        *)
LEMMA BytesType ==
    ASSUME NEW offset \in Nat, NEW n \in Nat
    PROVE  Bytes(offset, n) \in Nat /\ Looked(offset + n) \in Nat
<1> DEFINE S == offset..offset + n - 1
           T == {i \in S : LineStarts(i)}
<1>1. IsFiniteSet(S)
  BY FS_Interval
<1>2. Cardinality(T) \in Nat
  BY <1>1, FS_Subset, FS_CardinalityType
<1> HIDE DEF T
<1>3. n + 2 * Cardinality(T) \in Nat
  BY <1>2
<1>4. QED BY <1>3 DEF Bytes, Looked, T

(* There is a number of characters to copy: the first that the buffer has   *)
(* no room for ends the loop, or the last.                                  *)
LEMMA CharactersType ==
    ASSUME NEW offset \in Nat, NEW left \in Nat, NEW max \in Nat
    PROVE  LET n == Characters(offset, left, max)
           IN  n \in 0..left /\ (n < left => Bytes(offset, n) + Looked(offset + n) > max)
<1> DEFINE Fits(k) == Bytes(offset, k) + Looked(offset + k) <= max
           Over(k) == Bytes(offset, k) + Looked(offset + k) > max
           S == {n \in 0..left : n = left \/ ~Fits(n)}
           Below == {ss \in Nat \X Nat : ss[1] < ss[2]}
<1>1. \A k \in Nat : Fits(k) \/ Over(k)
  BY BytesType
<1>2. S \subseteq Nat /\ S # {}
  OBVIOUS
<1>3. IsWellFoundedOn(Below, Nat)
  BY NatLessThanWellFounded DEF OpToRel
<1>4. \A k, n \in Nat : k < n => <<k, n>> \in Below
  OBVIOUS
<1>5. PICK n \in S : \A k \in S : ~(<<k, n>> \in Below)
  <2> HIDE DEF S, Below
  <2>1. QED BY <1>2, <1>3, WFMin
<1> HIDE DEF Fits, Over, Below
<1>6. n \in 0..left /\ (n < left => ~Fits(n))
  OBVIOUS
<1>7. ASSUME NEW k \in 0..n - 1 PROVE Fits(k)
  <2>1. k \in 0..left /\ k < n /\ k \in Nat /\ n \in Nat
    BY <1>6
  <2>2. QED BY <1>4, <1>5, <2>1
<1>8. n < left => Over(n)
  BY <1>1, <1>6
<1> HIDE DEF S
<1>9. \E i \in 0..left : (\A k \in 0..i - 1 : Fits(k)) /\ (i < left => Over(i))
  BY <1>6, <1>7, <1>8
<1>10. QED BY <1>9 DEF Characters, Fits, Over

(* A piece of the header, or of the body, leaves read_offset inside.        *)
LEMMA HeaderPartHanded ==
    ASSUME NEW p, NEW length \in Nat, Handed(p, length), ~p.header_sent, NEW max \in Nat
    PROVE  Handed(HeaderPart(p, max), length)
<1> DEFINE left == HeaderSize - p.read_offset
           n == IF max > left THEN left ELSE max
           q == HeaderPart(p, max)
<1>1. HeaderSize \in Nat /\ p.read_offset \in Nat /\ left \in Nat /\ DOMAIN p = Fields
  BY MailerAssumption DEF Handed
<1>2. /\ DOMAIN q = Fields /\ q.header_sent = (max > left)
      /\ q.read_offset = IF max > left THEN 0 ELSE p.read_offset + n
  BY <1>1 DEF HeaderPart, Fields
<1>3. max > left \/ p.read_offset + n <= HeaderSize
  BY <1>1
<1> HIDE DEF q
<1>4. q.read_offset \in Nat /\ q.read_offset <= IF q.header_sent THEN length ELSE HeaderSize
  <2>1. CASE max > left
    <3>1. q.header_sent /\ q.read_offset = 0
      BY <1>2, <2>1
    <3>2. QED BY <3>1
  <2>2. CASE ~(max > left)
    <3>1. ~q.header_sent /\ q.read_offset = p.read_offset + n /\ n \in Nat
      BY <1>2, <2>2
    <3> HIDE DEF n
    <3>2. QED BY <1>1, <1>3, <2>2, <3>1
  <2>3. QED BY <2>1, <2>2
<1>5. Handed(q, length)
  BY <1>2, <1>4 DEF Handed
<1>6. QED BY <1>5 DEF q

LEMMA BodyPartHanded ==
    ASSUME NEW p, NEW chars \in Seq(Chars), Handed(p, Len(chars)), p.header_sent, NEW max \in Nat
    PROVE  Handed(BodyPart(p, chars, max), Len(chars))
<1> DEFINE left == Len(chars) - p.read_offset
           n == Characters(p.read_offset, left, max)
           q == BodyPart(p, chars, max)
<1>1. Len(chars) \in Nat /\ p.read_offset \in Nat /\ left \in Nat /\ DOMAIN p = Fields
  BY LenProperties DEF Handed
<1>2. n \in 0..left
  BY <1>1, CharactersType
<1>3. /\ DOMAIN q = Fields /\ q.header_sent = p.header_sent
      /\ q.read_offset = p.read_offset + n
  BY <1>1 DEF BodyPart, Fields
<1> HIDE DEF q, n
<1>4. q.read_offset \in Nat /\ q.read_offset <= Len(chars)
  BY <1>1, <1>2, <1>3
<1>5. Handed(q, Len(chars))
  BY <1>3, <1>4 DEF Handed
<1>6. QED BY <1>5 DEF q

(* One callback of curl, and all of one curl_multi_perform().               *)
LEMMA CurlHanded ==
    ASSUME NEW fate, setup \in Setups, curl_multi_perform(fate),
           msg = [m \in Mails |-> msg[m]],
           \A m \in Mails : body_buffer'[m] \in Seq(Chars) /\ Handed(msg[m], Len(body_buffer'[m]))
    PROVE  /\ msg' = [m \in Mails |-> msg'[m]]
           /\ \A m \in Mails : Handed(msg'[m], Len(body_buffer'[m]))
<1>1. msg' = [m \in Mails |-> IF m \in DOMAIN fate /\ fate[m] = "read" THEN Copied(m) ELSE msg[m]]
  BY DEF curl_multi_perform
<1>2. ASSUME NEW m \in Mails PROVE Handed(Copied(m), Len(body_buffer'[m]))
  <2>1. setup[m].buffer \in Nat /\ body_buffer'[m] \in Seq(Chars) /\ Len(body_buffer'[m]) \in Nat
        /\ Handed(msg[m], Len(body_buffer'[m]))
    BY SetupType, LenProperties
  <2>2. CASE msg[m].data_sent
    BY <2>1, <2>2 DEF Copied, copySmtpData
  <2>3. CASE ~msg[m].data_sent /\ msg[m].header_sent
    BY <2>1, <2>3, BodyPartHanded DEF Copied, copySmtpData
  <2>4. CASE ~msg[m].data_sent /\ ~msg[m].header_sent
    BY <2>1, <2>4, HeaderPartHanded DEF Copied, copySmtpData
  <2>5. QED BY <2>2, <2>3, <2>4
<1>3. QED BY <1>1, <1>2

(* The buffer for an encoding is big enough for it.                         *)
LEMMA ScratchBuffer ==
    ASSUME setup \in Setups, BodyInv, NEW m \in Mails
    PROVE  LET target == getScratchBuffer(EncodedSize(m))
           IN  target \in Seq(Chars) /\ Len(target) >= EncodedSize(m) /\ Len(target) \in Nat
<1> DEFINE size == EncodedSize(m)
           target == getScratchBuffer(size)
<1>1. size \in Nat
  BY SetupType
<1> HIDE DEF size
<1>2. CASE Len(scratch) > size
  BY <1>1, <1>2, LenProperties DEF getScratchBuffer, BodyInv, size
<1>3. CASE ~(Len(scratch) > size)
  <2>1. target = [i \in 1..size + 1 |-> Uninitialised] /\ Uninitialised \in Chars
    BY <1>3 DEF getScratchBuffer, Chars
  <2> HIDE DEF target
  <2>2. target \in Seq(Chars) /\ Len(target) = size + 1
    BY <1>1, <2>1
  <2>3. QED BY <1>1, <2>2 DEF target, size
<1>4. QED BY <1>2, <1>3

(* The encoding of a mail fills its place in the buffer.                    *)
LEMMA Encoded ==
    ASSUME setup \in Setups, BodyInv, NEW m \in Mails, initializeSend(m), UNCHANGED setup
    PROVE  BodyInv' /\ \A k \in Mails : Len(body_buffer[k]) <= Len(body_buffer'[k])
<1> DEFINE size == EncodedSize(m)
           target == getScratchBuffer(size)
<1>1. size \in Nat /\ setup[m].size \in Nat
  BY SetupType
<1> HIDE DEF size
<1> HIDE DEF target
<1>2. target \in Seq(Chars) /\ Len(target) >= size /\ Len(target) \in Nat
  BY ScratchBuffer DEF target, size
<1>3. scratch' = base64_encode(m, target)
  BY DEF initializeSend, target, size
<1>4. encodings[m] \in Nat /\ encodings' = [encodings EXCEPT ![m] = @ + 1]
      /\ encodings' \in [Mails -> 0..MaxSends]
  BY MailerAssumption DEF initializeSend, BodyInv
<1>5. scratch' \in Seq(Chars) /\ Len(scratch') = Len(target)
  <2>1. /\ \A i \in 1..Len(target) : target[i] \in Chars /\ <<m, encodings[m] + 1, i>> \in Chars
        /\ Nul \in Chars
    BY <1>2, <1>4 DEF Chars
  <2>2. DOMAIN target = 1..Len(target)
    BY <1>2
  <2>3. scratch' = [i \in 1..Len(target) |->
                     IF i <= Groups(setup[m].size) THEN <<m, encodings[m] + 1, i>>
                     ELSE IF i = EncodedSize(m) + 1 THEN Nul ELSE target[i]]
    BY <1>3, <2>2 DEF base64_encode
  <2>4. \A i \in 1..Len(target) : scratch'[i] \in Chars
    BY <2>1, <2>3
  <2>5. QED BY <1>2, <2>3, <2>4
<1> DEFINE body == SubSeq(scratch', 1, size)
<1>6. body \in Seq(Chars) /\ Len(body) = size
  BY <1>1, <1>2, <1>5
<1> HIDE DEF body
<1>7. body_buffer' = [body_buffer EXCEPT ![m] = body]
  BY DEF initializeSend, body, size
<1>8. ASSUME NEW k \in Mails
      PROVE  /\ body_buffer'[k] \in Seq(Chars) /\ Len(body_buffer'[k]) \in {0, EncodedSize(k)}
             /\ Len(body_buffer[k]) <= Len(body_buffer'[k])
  <2>1. /\ body_buffer[k] \in Seq(Chars) /\ Len(body_buffer[k]) \in {0, EncodedSize(k)}
        /\ Len(body_buffer[k]) \in Nat
    BY LenProperties DEF BodyInv
  <2>2. body_buffer'[k] = IF k = m THEN body ELSE body_buffer[k]
    BY <1>7 DEF BodyInv
  <2>3. QED BY <1>1, <1>6, <2>1, <2>2 DEF size
<1>9. body_buffer' = [k \in Mails |-> body_buffer'[k]]
  BY <1>7 DEF BodyInv
<1>10. \A k \in Mails : EncodedSize(k)' = EncodedSize(k)
  BY DEF EncodedSize
<1>11. QED BY <1>4, <1>5, <1>8, <1>9, <1>10 DEF BodyInv

LEMMA TextInit == ASSUME Init PROVE TextInv
<1>1. ASSUME NEW m \in Mails PROVE Handed(msg[m], Len(body_buffer[m]))
  BY MailerAssumption DEF Init, Handed, Fields, NewMsg
<1>2. BodyInv
  BY MailerAssumption DEF Init, BodyInv
<1>3. QED BY <1>1, <1>2 DEF Init, TextInv

(* Every step keeps read_offset inside the header or the body.              *)
LEMMA TextNext == TextInv /\ [Next]_vars => TextInv'
<1> SUFFICES ASSUME TextInv, [Next]_vars PROVE TextInv'
  OBVIOUS
<1>1. ASSUME UNCHANGED <<setup, msg, encodings, body_buffer, scratch>> PROVE TextInv'
  BY <1>1 DEF TextInv, BodyInv, EncodedSize
<1>2. UNCHANGED setup
  BY DEF Next, vars, Create, Drop, Send, SendGone, perform, PerformClears, PerformFails, Clear,
         PerformWorks, Destroy
<1>3. ASSUME BodyInv', \A m \in Mails : Len(body_buffer[m]) <= Len(body_buffer'[m]),
             UNCHANGED msg \/ \E fate : curl_multi_perform(fate)
      PROVE  TextInv'
  <2>1. ASSUME NEW m \in Mails
        PROVE  body_buffer'[m] \in Seq(Chars) /\ Handed(msg[m], Len(body_buffer'[m]))
    <3>1. body_buffer[m] \in Seq(Chars) /\ Handed(msg[m], Len(body_buffer[m]))
      BY DEF TextInv, BodyInv
    <3>2. body_buffer'[m] \in Seq(Chars)
      BY <1>3 DEF BodyInv
    <3>3. /\ Len(body_buffer[m]) \in Nat /\ Len(body_buffer'[m]) \in Nat
          /\ Len(body_buffer[m]) <= Len(body_buffer'[m]) /\ HeaderSize \in Nat
      BY <1>3, <3>1, <3>2, LenProperties, MailerAssumption
    <3>4. QED BY <3>1, <3>2, <3>3 DEF Handed
  <2>2. CASE UNCHANGED msg
    BY <1>2, <1>3, <2>1, <2>2 DEF TextInv
  <2>3. ASSUME NEW fate, curl_multi_perform(fate) PROVE TextInv'
    BY <1>2, <1>3, <2>1, <2>3, CurlHanded DEF TextInv
  <2>4. QED BY <1>3, <2>2, <2>3
<1>4. ASSUME NEW m \in Mails, Send(m) PROVE TextInv'
  <2>1. initializeSend(m) /\ (UNCHANGED msg \/ \E fate : curl_multi_perform(fate))
    BY <1>4 DEF Send
  <2>2. BodyInv' /\ \A k \in Mails : Len(body_buffer[k]) <= Len(body_buffer'[k])
    BY <1>2, <2>1, Encoded DEF TextInv
  <2>3. QED BY <1>3, <2>1, <2>2
<1>5. CASE PerformWorks
  <2>1. UNCHANGED <<encodings, body_buffer, scratch>> /\ \E fate : curl_multi_perform(fate)
    BY <1>5 DEF PerformWorks
  <2>2. BodyInv'
    BY <1>2, <2>1 DEF TextInv, BodyInv, EncodedSize
  <2>3. \A m \in Mails : Len(body_buffer[m]) \in Nat
    BY LenProperties DEF TextInv, BodyInv
  <2>4. QED BY <1>3, <2>1, <2>2, <2>3
<1>6. CASE UNCHANGED vars
  BY <1>1, <1>6 DEF vars
<1>7. ASSUME NEW m \in Mails, Drop(m) \/ SendGone(m) PROVE TextInv'
  BY <1>1, <1>7 DEF Drop, SendGone
<1>8. ASSUME NEW m \in Mails, Create(m) PROVE TextInv'
  <2>1. /\ encodings' = [encodings EXCEPT ![m] = 0] /\ scratch' = scratch
        /\ body_buffer' = [body_buffer EXCEPT ![m] = <<>>]
        /\ msg' = [msg EXCEPT ![m] = NewMsg]
    BY <1>8 DEF Create
  <2>2. encodings' \in [Mails -> 0..MaxSends] /\ body_buffer' = [k \in Mails |-> body_buffer'[k]]
        /\ msg' = [k \in Mails |-> msg'[k]]
    <3>1. 0 \in 0..MaxSends /\ encodings \in [Mails -> 0..MaxSends]
      BY MailerAssumption DEF TextInv, BodyInv
    <3>2. encodings' \in [Mails -> 0..MaxSends]
      BY <2>1, <3>1
    <3>3. body_buffer = [k \in Mails |-> body_buffer[k]] /\ msg = [k \in Mails |-> msg[k]]
      BY DEF TextInv, BodyInv
    <3>4. body_buffer' = [k \in Mails |-> body_buffer'[k]]
      BY <2>1, <3>3
    <3>5. msg' = [k \in Mails |-> msg'[k]]
      BY <2>1, <3>3
    <3> QED BY <3>2, <3>4, <3>5
  <2>3. \A k \in Mails : /\ body_buffer'[k] = IF k = m THEN <<>> ELSE body_buffer[k]
                         /\ msg'[k] = IF k = m THEN NewMsg ELSE msg[k]
                         /\ EncodedSize(k)' = EncodedSize(k)
    BY <1>2, <2>1 DEF TextInv, BodyInv, EncodedSize
  <2>4. BodyInv'
    BY <2>1, <2>2, <2>3 DEF TextInv, BodyInv
  <2>5. Handed(NewMsg, Len(<<>>))
    BY MailerAssumption DEF Handed, Fields, NewMsg
  <2>6. \A k \in Mails : Handed(msg'[k], Len(body_buffer'[k]))
    BY <2>3, <2>5 DEF TextInv
  <2> QED BY <1>2, <2>2, <2>4, <2>6 DEF TextInv
<1>9. CASE PerformClears \/ PerformFails \/ Destroy
  BY <1>1, <1>9 DEF PerformClears, PerformFails, Clear, Destroy
<1>10. QED BY <1>4, <1>5, <1>6, <1>7, <1>8, <1>9 DEF Next, perform
-----------------------------------------------------------------------------
(* What remains of the types: running_count is the number of the transfers  *)
(* that curl works on, as curl reports it, none of them of a mail without   *)
(* recipients, and no more timeouts are counted than perform() bears.       *)
Turns == [ready : BOOLEAN, even : BOOLEAN]
Received == \A m \in Mails : IsRunning(m) => setup[m].rcpt
CountInv ==
    /\ deletions \in [Mails -> Nat]
    /\ alive => running_count = Cardinality(Running)
    /\ timeout_count \in 0..MaxTimeouts + 1 /\ turn \in Turns
    /\ alive \in BOOLEAN /\ wild \in BOOLEAN

(* Slots are emptied, so many copies of a mail deleted as they held.        *)
LEMMA DeleteSlotsType ==
    ASSUME OwnInv, CountInv, NEW T \in SUBSET Slots, DeleteSlots(T)
    PROVE  deletions' \in [Mails -> Nat] /\ wild' \in BOOLEAN
<1>1. IsFiniteSet(Slots)
  BY FS_Interval, MailerAssumption DEF Slots
<1>2. ASSUME NEW m \in Mails PROVE Cardinality({s \in T : transfers[s] = m}) \in Nat
  BY <1>1, FS_Subset, FS_CardinalityType
<1> DEFINE gone == [m \in Mails |-> Cardinality({s \in T : transfers[s] = m})]
<1>3. gone \in [Mails -> Nat] /\ deletions' = [m \in Mails |-> deletions[m] + gone[m]]
  BY <1>2 DEF DeleteSlots
<1> HIDE DEF gone
<1>4. deletions' \in [Mails -> Nat]
  BY <1>3 DEF CountInv
<1>5. wild' \in BOOLEAN
  BY DEF DeleteSlots, CountInv
<1>6. QED BY <1>4, <1>5

(* clear() leaves nothing to curl.                                          *)
LEMMA NoneRunning ==
    ASSUME easy' = [m \in Mails |-> IF IsRunning(m) THEN "cleared" ELSE easy[m]]
    PROVE  Cardinality(Running') = 0
<1>1. Running' = {}
  BY DEF Running, IsRunning
<1>2. QED BY <1>1, FS_EmptySet

(* curl only works on mails with recipients.                                *)
LEMMA ReceivedNext == OwnInv /\ Received /\ [Next]_vars => Received'
<1> SUFFICES ASSUME OwnInv, Received, [Next]_vars PROVE Received'
  OBVIOUS
<1>1. UNCHANGED setup
  BY DEF Next, vars, Create, Drop, Send, SendGone, perform, PerformClears, PerformFails, Clear,
         PerformWorks, Destroy
<1>2. ASSUME \A k \in Mails : IsRunning(k)' => IsRunning(k) \/ setup[k].rcpt PROVE Received'
  BY <1>1, <1>2 DEF Received
<1>3. CASE UNCHANGED easy
  BY <1>2, <1>3 DEF IsRunning
<1>4. ASSUME NEW m \in Mails, Create(m) PROVE Received'
  <2>1. easy' = [easy EXCEPT ![m] = "out"] /\ easy \in [Mails -> Transfers]
    BY <1>4 DEF Create, OwnInv
  <2> QED BY <1>2, <2>1 DEF IsRunning
<1>5. ASSUME NEW S \in SUBSET Mails, NEW fate \in FateOf(S), curl_multi_perform(fate),
             \A k \in S : IsRunning(k) \/ setup[k].rcpt
      PROVE  Received'
  <2>1. \A k \in Mails : IsRunning(k)' => IsRunning(k) \/ k \in S
    BY <1>5, CurlType
  <2> QED BY <1>2, <1>5, <2>1
<1>6. CASE easy' = [k \in Mails |-> IF IsRunning(k) THEN "cleared" ELSE easy[k]]
  BY <1>2, <1>6 DEF IsRunning
<1>7. ASSUME NEW m \in Mails, Send(m) PROVE Received'
  <2>1. UNCHANGED easy \/ (setup[m].rcpt /\ \E fate \in FateOf(Running \cup {m}) : curl_multi_perform(fate))
    BY <1>7 DEF Send
  <2>2. Running \cup {m} \in SUBSET Mails /\ \A k \in Running : IsRunning(k)
    BY DEF Running
  <2> QED BY <1>3, <1>5, <2>1, <2>2
<1>8. CASE PerformWorks
  <2>1. PICK fate \in FateOf(Running) : curl_multi_perform(fate)
    BY <1>8 DEF PerformWorks
  <2>2. Running \in SUBSET Mails /\ \A k \in Running : IsRunning(k)
    BY DEF Running
  <2> QED BY <1>5, <2>1, <2>2
<1>9. ASSUME NEW m \in Mails, Drop(m) \/ SendGone(m) PROVE Received'
  BY <1>3, <1>9 DEF Drop, SendGone
<1>10. CASE PerformClears \/ PerformFails \/ Destroy
  BY <1>6, <1>10 DEF PerformClears, PerformFails, Clear, Destroy
<1>11. CASE UNCHANGED vars
  BY <1>3, <1>11 DEF vars
<1> QED BY <1>4, <1>7, <1>8, <1>9, <1>10, <1>11 DEF Next, perform

LEMMA CountNext == OwnInv /\ CountInv /\ Received /\ [Next]_vars => CountInv'
<1> SUFFICES ASSUME OwnInv, CountInv, Received, [Next]_vars PROVE CountInv'
  OBVIOUS
<1> USE MailerAssumption
<1>1. CASE UNCHANGED vars
  BY <1>1 DEF vars, CountInv, Running, IsRunning
<1>2. ASSUME NEW m \in Mails, Create(m) PROVE CountInv'
  <2>1. /\ caller[m] = "none" \/ (caller[m] # "holds" /\ Deleted(m) /\ SlotsOf(m) = {})
        /\ deletions' = [deletions EXCEPT ![m] = 0] /\ easy' = [easy EXCEPT ![m] = "out"]
        /\ UNCHANGED <<running_count, timeout_count, alive, turn, wild>>
    BY <1>2 DEF Create, Gone
  <2>2. ~IsRunning(m)
    <3>1. CASE setup[m].rcpt
      <4>1. MailInv(m)
        BY <3>1 DEF OwnInv
      <4>2. ~Owned(m)
        BY <2>1 DEF Owned, Deleted
      <4> QED BY <4>1, <4>2 DEF MailInv
    <3>2. CASE ~setup[m].rcpt
      BY <3>2 DEF Received
    <3> QED BY <3>1, <3>2
  <2>3. \A k \in Mails : IsRunning(k)' <=> IsRunning(k)
    BY <2>1, <2>2 DEF IsRunning, OwnInv
  <2>4. Running' = Running
    BY <2>3 DEF Running
  <2> QED BY <2>1, <2>4 DEF CountInv
<1>3. ASSUME NEW m \in Mails, Drop(m) PROVE CountInv'
  BY <1>3 DEF Drop, CountInv, Running, IsRunning
<1>4. ASSUME NEW m \in Mails, SendGone(m) PROVE CountInv'
  BY <1>4 DEF SendGone, CountInv, Running, IsRunning
<1>5. ASSUME NEW m \in Mails, Send(m) PROVE CountInv'
  <2>1. UNCHANGED <<deletions, wild, alive, turn>>
    BY <1>5 DEF Send
  <2>2. CASE UNCHANGED <<running_count, timeout_count, easy>>
    BY <2>1, <2>2 DEF CountInv, Running, IsRunning
  <2>3. ASSUME NEW fate, curl_multi_perform(fate), timeout_count' = 0 PROVE CountInv'
    BY <2>1, <2>3 DEF curl_multi_perform, CountInv, Running, IsRunning
  <2>4. QED BY <1>5, <2>2, <2>3 DEF Send
<1>6. CASE PerformClears \/ PerformFails
  <2>1. Clear
    BY <1>6 DEF PerformClears, PerformFails
  <2>2. deletions' \in [Mails -> Nat] /\ wild' \in BOOLEAN
    BY <2>1, DeleteSlotsType DEF Clear, Occupied
  <2>3. running_count' = Cardinality(Running')
    BY <2>1, NoneRunning DEF Clear
  <2>4. timeout_count' = 0 /\ UNCHANGED <<alive, turn>>
    BY <2>1 DEF Clear
  <2>5. QED BY <2>2, <2>3, <2>4 DEF CountInv
<1>7. CASE PerformWorks
  <2>1. deletions' \in [Mails -> Nat] /\ wild' \in BOOLEAN
    <3>1. CASE UNCHANGED owners
      BY <3>1 DEF CountInv
    <3>2. CASE wild' = TRUE /\ UNCHANGED deletions
      BY <3>2 DEF CountInv
    <3>3. CASE DeleteSlots(EndedSlots)
      BY <3>3, DeleteSlotsType DEF EndedSlots, Occupied
    <3>4. QED BY <1>7, <3>1, <3>2, <3>3 DEF PerformWorks
  <2>2. timeout_count' \in 0..MaxTimeouts + 1
    BY <1>7 DEF PerformWorks, Exhausted, Waited, CountInv
  <2>3. running_count' = Cardinality(Running')
    BY <1>7 DEF PerformWorks, curl_multi_perform, Running, IsRunning
  <2>4. turn' \in Turns /\ alive' = alive
    BY <1>7 DEF PerformWorks, CountInv, Turns
  <2>5. QED BY <2>1, <2>2, <2>3, <2>4 DEF CountInv
<1>8. CASE Destroy
  <2>1. deletions' \in [Mails -> Nat] /\ wild' \in BOOLEAN
    BY <1>8, DeleteSlotsType DEF Destroy, Occupied
  <2>2. QED BY <1>8, <2>1 DEF Destroy, CountInv
<1>9. QED BY <1>1, <1>2, <1>3, <1>4, <1>5, <1>6, <1>7, <1>8 DEF Next, perform

(* Every variable keeps its type; the callback reads a header and a body    *)
(* only as far as they go, whatever curl asks for and however often a mail  *)
(* is encoded; and running_count, by which perform() decides whether to     *)
(* collect, is the number of running transfers (copySmtpData, send,         *)
(* perform, clear).                                                         *)
THEOREM TypeCorrect == Spec => []TypeOK
<1>1. Init => TextInv /\ CountInv /\ Received
  <2> SUFFICES ASSUME Init PROVE TextInv /\ CountInv /\ Received
    OBVIOUS
  <2>1. TextInv
    BY TextInit
  <2>2. Running = {}
    BY DEF Init, Running, IsRunning
  <2>3. CountInv
    <3>1. Cardinality(Running) = 0 /\ 0 \in 0..MaxTimeouts + 1
      BY <2>2, FS_EmptySet, MailerAssumption
    <3>2. deletions \in [Mails -> Nat]
      BY DEF Init
    <3>3. alive \in BOOLEAN /\ wild \in BOOLEAN
      BY DEF Init
    <3>4. running_count = 0 /\ timeout_count = 0 /\ turn \in Turns
      BY DEF Init, Turns
    <3>5. QED BY <3>1, <3>2, <3>3, <3>4 DEF CountInv
  <2>4. Received
    BY <2>2 DEF Received, Running
  <2>5. QED BY <2>1, <2>3, <2>4
<1>2. OwnInv /\ TextInv /\ CountInv => TypeOK
  <2> SUFFICES ASSUME OwnInv, TextInv, CountInv PROVE TypeOK
    OBVIOUS
  <2>1. ASSUME NEW m \in Mails PROVE msg[m].read_offset <= HeaderSize + Len(body_buffer[m])
    <3>1. Handed(msg[m], Len(body_buffer[m])) /\ Len(body_buffer[m]) \in Nat
      BY LenProperties DEF TextInv, BodyInv
    <3>2. QED BY <3>1, MailerAssumption DEF Handed
  <2>2. QED BY <2>1 DEF TypeOK, OwnInv, TextInv, BodyInv, CountInv, Transfers, Turns
<1>3. QED BY <1>1, <1>2, AlwaysOwned, TextNext, CountNext, ReceivedNext, PTL DEF Spec

-----------------------------------------------------------------------------
(* The bytes of a mail *)

Octets == ({"header", "crlf", "end"} \X Nat) \cup Chars
CodeOf(chars, i) == (IF LineStarts(i - 1) THEN LineBreak ELSE <<>>) \o <<chars[i]>>
CodesOf(chars, offset, n) == [k \in 1..n |-> CodeOf(chars, offset + k)]

LEMMA CodeType ==
    ASSUME NEW chars \in Seq(Chars), NEW i \in 1..Len(chars)
    PROVE  CodeOf(chars, i) \in Seq(Octets) /\ Len(CodeOf(chars, i)) \in Nat \ {0}
<1>1. chars[i] \in Octets
  BY ElementOfSeq DEF Octets
<1>2. <<chars[i]>> \in Seq(Octets) /\ Len(<<chars[i]>>) = 1
  BY <1>1
<1>3. LineBreak \in Seq(Octets) /\ Len(LineBreak) = 2
  <2>1. <<"crlf", 1>> \in Octets /\ <<"crlf", 2>> \in Octets
    BY DEF Octets
  <2>2. QED BY <2>1 DEF LineBreak
<1>4. <<>> \in Seq(Octets) /\ Len(<<>>) = 0
  OBVIOUS
<1>5. PICK s \in Seq(Octets) : s = IF LineStarts(i - 1) THEN LineBreak ELSE <<>>
  BY <1>3, <1>4
<1>6. CodeOf(chars, i) = s \o <<chars[i]>>
  BY <1>5 DEF CodeOf
<1>7. QED BY <1>2, <1>6

LEMMA LinesOf ==
    ASSUME NEW chars \in Seq(Chars), NEW offset \in Nat, NEW n \in Nat, offset + n <= Len(chars)
    PROVE  /\ CodesOf(chars, offset, n) \in Seq(Seq(Octets)) /\ Len(CodesOf(chars, offset, n)) = n
           /\ Lines(chars, offset, n) = FlattenSeq(CodesOf(chars, offset, n))
           /\ Lines(chars, offset, n) \in Seq(Octets)
<1>1. \A k \in 1..n : CodeOf(chars, offset + k) \in Seq(Octets)
  <2>1. ASSUME NEW k \in 1..n PROVE offset + k \in 1..Len(chars)
    BY LenProperties
  <2>2. QED BY <2>1, CodeType
<1>2. PICK S : S = Seq(Octets)
  OBVIOUS
<1>3. \A k \in 1..n : CodeOf(chars, offset + k) \in S
  BY <1>1, <1>2
<1>4. CodesOf(chars, offset, n) \in Seq(S) /\ Len(CodesOf(chars, offset, n)) = n
  BY <1>3 DEF CodesOf
<1>5. CodesOf(chars, offset, n) \in Seq(Seq(Octets))
  BY <1>2, <1>4
<1>6. Lines(chars, offset, n) = FlattenSeq(CodesOf(chars, offset, n))
  BY DEF Lines, CodesOf, CodeOf
<1>7. QED BY <1>4, <1>5, <1>6, FlattenType

(* Lines that are read in two pieces.                                       *)
LEMMA LinesConcat ==
    ASSUME NEW chars \in Seq(Chars), NEW offset \in Nat, NEW k \in Nat, NEW n \in Nat,
           offset + k + n <= Len(chars)
    PROVE  Lines(chars, offset, k) \o Lines(chars, offset + k, n) = Lines(chars, offset, k + n)
<1>0. /\ Len(chars) \in Nat /\ offset + k \in Nat /\ k + n \in Nat
      /\ offset + k <= Len(chars) /\ offset + (k + n) <= Len(chars)
  BY LenProperties
<1>1. PICK a \in Seq(Seq(Octets)) : a = CodesOf(chars, offset, k)
  BY <1>0, LinesOf
<1>2. PICK b \in Seq(Seq(Octets)) : b = CodesOf(chars, offset + k, n)
  BY <1>0, LinesOf
<1>3. PICK c \in Seq(Seq(Octets)) : c = CodesOf(chars, offset, k + n)
  BY <1>0, LinesOf
<1>4. c = a \o b
  <2>1. PICK S : S = Seq(Octets)
    OBVIOUS
  <2>2. a \in Seq(S) /\ b \in Seq(S) /\ c \in Seq(S)
    BY <2>1
  <2> HIDE <2>1
  <2>3. Len(a) = k /\ Len(b) = n /\ Len(c) = k + n
    BY <1>0, <1>1, <1>2, <1>3, LinesOf
  <2>4. \A i \in 1..k : i \in 1..k + n /\ c[i] = a[i]
    BY <1>1, <1>3 DEF CodesOf
  <2>5. ASSUME NEW i \in 1..n PROVE c[k + i] = b[i]
    <3>1. k + i \in 1..k + n /\ offset + (k + i) = offset + k + i
      OBVIOUS
    <3>2. c[k + i] = CodeOf(chars, offset + (k + i))
      BY <1>3, <3>1 DEF CodesOf
    <3>3. b[i] = CodeOf(chars, offset + k + i)
      BY <1>2 DEF CodesOf
    <3>4. QED BY <3>1, <3>2, <3>3
  <2>6. /\ Len(c) = Len(a) + Len(b) /\ \A i \in 1..Len(a) : c[i] = a[i]
        /\ \A i \in 1..Len(b) : c[Len(a) + i] = b[i]
    BY <2>3, <2>4, <2>5
  <2>7. QED BY <2>2, <2>6, ConcatIs
<1>5. FlattenSeq(c) = FlattenSeq(a) \o FlattenSeq(b)
  BY <1>4, FlattenConcat
<1>6. /\ Lines(chars, offset, k) = FlattenSeq(a) /\ Lines(chars, offset + k, n) = FlattenSeq(b)
      /\ Lines(chars, offset, k + n) = FlattenSeq(c)
  BY <1>0, <1>1, <1>2, <1>3, LinesOf
<1>7. QED BY <1>5, <1>6

(* No character takes no byte.                                              *)
LEMMA LinesGrow ==
    ASSUME NEW chars \in Seq(Chars), NEW offset \in Nat, NEW n \in Nat \ {0},
           offset + n <= Len(chars)
    PROVE  Len(Lines(chars, offset, n)) \in Nat \ {0}
<1>0. Len(chars) \in Nat /\ n - 1 \in Nat /\ 1 + (n - 1) = n /\ offset + 1 \in 1..Len(chars)
      /\ offset + 1 + (n - 1) <= Len(chars)
  BY LenProperties
<1>1. PICK code \in Seq(Octets) : code = CodeOf(chars, offset + 1) /\ Len(code) \in Nat \ {0}
  BY <1>0, CodeType
<1>2. Lines(chars, offset, 1) = code
  <2>1. CodesOf(chars, offset, 1) = <<code>>
    BY <1>1 DEF CodesOf
  <2>2. FlattenSeq(<<code>>) = code
    <3>1. FlattenSeq(Append(<<>>, code)) = FlattenSeq(<<>>) \o code
      <4>1. <<>> \in Seq(Seq(Octets))
        OBVIOUS
      <4>2. QED BY <4>1, FlattenAppend
    <3>2. Append(<<>>, code) = <<code>> /\ FlattenSeq(<<>>) = <<>>
      BY FlattenEmpty
    <3>3. <<>> \o code = code
      OBVIOUS
    <3>4. QED BY <3>1, <3>2, <3>3
  <2>3. Lines(chars, offset, 1) = FlattenSeq(CodesOf(chars, offset, 1))
    <3>1. 1 \in Nat /\ offset + 1 <= Len(chars)
      BY <1>0
    <3>2. QED BY <3>1, LinesOf
  <2>4. QED BY <2>1, <2>2, <2>3
<1>3. PICK rest \in Seq(Octets) : rest = Lines(chars, offset + 1, n - 1)
  BY <1>0, LinesOf
<1>4. Lines(chars, offset, n) = code \o rest
  <2>1. PICK l \in Nat : l = n - 1
    BY <1>0
  <2>2. 1 \in Nat /\ 1 + l = n /\ offset + 1 + l <= Len(chars)
    BY <1>0, <2>1
  <2>3. Lines(chars, offset, 1) \o Lines(chars, offset + 1, l) = Lines(chars, offset, 1 + l)
    BY <2>2, LinesConcat
  <2>4. QED BY <1>2, <1>3, <2>1, <2>2, <2>3
<1>5. QED BY <1>1, <1>4

-----------------------------------------------------------------------------
(* How much of a mail was read *)

\* A body that was encoded once.
Text(m) == [i \in 1..Groups(setup[m].size) |-> <<m, 1, i>>]
EvenSize(m) == setup[m].size % 3 # 0
Fitting(m) == EvenSize(m) /\ setup[m].buffer >= 5 /\ HeaderSize % setup[m].buffer # 0

\* As many whole buffers of the header, so many characters of the body, or all.
InHeader(p, m) ==
    /\ ~p.header_sent /\ ~p.data_sent /\ p.read_offset \in Nat /\ p.read_offset < HeaderSize
    /\ \E q \in Nat : p.read_offset = q * setup[m].buffer
    /\ p.sent = SubSeq(HeaderBytes, 1, p.read_offset)
InBody(p, m) ==
    /\ p.header_sent /\ ~p.data_sent /\ p.read_offset \in 0..Groups(setup[m].size)
    /\ p.sent = HeaderBytes \o Lines(Text(m), 0, p.read_offset)
ReadOut(p, m) == p.data_sent /\ p.sent = WholeText(m)
ReadOf(p, m) == DOMAIN p = Fields /\ (InHeader(p, m) \/ InBody(p, m) \/ ReadOut(p, m))

\* An encoding that is no multiple of three fills its place exactly.
LEMMA EncodedSizes ==
    ASSUME NEW n \in Nat, n % 3 # 0
    PROVE  base64_size(n) = Groups(n) /\ Groups(n) \in Nat
<1>1. PICK q \in Nat : n = 3 * q + 1 \/ n = 3 * q + 2
  <2>1. n \div 3 \in Nat /\ n % 3 \in 1..2 /\ n = 3 * (n \div 3) + (n % 3)
    OBVIOUS
  <2>2. QED BY <2>1
<1>2. (n * 4) \div 3 \in {4 * q + 1, 4 * q + 2} /\ (n + 2) \div 3 = q + 1
  BY <1>1
<1>3. (4 * q + 1) % 4 = 1 /\ (4 * q + 2) % 4 = 2
  OBVIOUS
<1>4. base64_size(n) = 4 * q + 4
  BY <1>2, <1>3 DEF base64_size
<1>5. Groups(n) = 4 * q + 4
  BY <1>2 DEF Groups
<1>6. QED BY <1>4, <1>5

LEMMA TextOf ==
    ASSUME setup \in Setups, NEW m \in Mails
    PROVE  /\ Text(m) \in Seq(Chars) /\ Len(Text(m)) = Groups(setup[m].size)
           /\ Groups(setup[m].size) \in Nat
<1>1. setup[m].size \in Nat
  BY SetupType
<1>2. Groups(setup[m].size) \in Nat
  BY <1>1 DEF Groups
<1>3. \A i \in 1..Groups(setup[m].size) : <<m, 1, i>> \in Chars
  BY <1>2 DEF Chars
<1>4. QED BY <1>2, <1>3 DEF Text

LEMMA EncodedOnce ==
    ASSUME setup \in Setups, BodyInv, NEW m \in Mails, initializeSend(m),
           encodings[m] = 0, EvenSize(m)
    PROVE  body_buffer'[m] = Text(m)
<1> DEFINE size == EncodedSize(m)
           target == getScratchBuffer(size)
<1> HIDE DEF target
<1>1. setup[m].size \in Nat
  BY SetupType
<1>2. size = Groups(setup[m].size) /\ size \in Nat
  BY <1>1, EncodedSizes DEF EvenSize, EncodedSize
<1>3. target \in Seq(Chars) /\ Len(target) >= size /\ Len(target) \in Nat
  BY ScratchBuffer DEF target
<1>4. scratch' = base64_encode(m, target)
  BY DEF initializeSend, target
<1> HIDE DEF size
<1>5. scratch' = [i \in 1..Len(target) |-> IF i <= size THEN <<m, 1, i>>
                                           ELSE IF i = EncodedSize(m) + 1 THEN Nul ELSE target[i]]
  <2>1. DOMAIN target = 1..Len(target)
    BY <1>3
  <2>2. QED BY <1>2, <1>4, <2>1 DEF base64_encode
<1>6. SubSeq(scratch', 1, size) = [i \in 1..size |-> <<m, 1, i>>]
  <2>1. \A i \in 1..size : i \in 1..Len(target) /\ 1 + i - 1 = i
    BY <1>2, <1>3
  <2>2. \A i \in 1..size : scratch'[i] = <<m, 1, i>>
    BY <1>5, <2>1
  <2>3. SubSeq(scratch', 1, size) = [i \in 1..size |-> scratch'[i]]
    BY <1>2, <1>3, <1>5
  <2>4. QED BY <2>2, <2>3
<1>7. body_buffer' = [body_buffer EXCEPT ![m] = SubSeq(scratch', 1, size)]
  BY DEF initializeSend, size
<1>8. body_buffer'[m] = SubSeq(scratch', 1, size)
  BY <1>7 DEF BodyInv
<1>9. QED BY <1>2, <1>6, <1>8 DEF Text

\* Whole buffers never end where the header does if its size is no multiple.
LEMMA Multiples ==
    ASSUME NEW b \in Nat \ {0}, NEW q \in Nat
    PROVE  (q * b) % b = 0
<1> DEFINE d == (q * b) \div b
           r == (q * b) % b
<1>1. q * b \in Nat
  OBVIOUS
<1>2. d \in Nat /\ r \in 0..b - 1 /\ q * b = b * d + r
  BY <1>1
<1> HIDE DEF d, r
<1>3. r = b * (q - d)
  BY <1>2
<1>4. q - d = 0
  <2>1. CASE q - d >= 1
    <3>1. b * (q - d) >= b
      BY <1>2, <2>1
    <3>2. QED BY <1>2, <1>3, <3>1
  <2>2. CASE q - d <= -1
    <3>1. b * (q - d) <= -b
      BY <1>2, <2>2
    <3>2. QED BY <1>2, <1>3, <3>1
  <2>3. QED BY <1>2, <2>1, <2>2
<1>5. r = 0
  BY <1>2, <1>3, <1>4
<1>6. QED BY <1>5 DEF r

LEMMA HeaderText ==
    /\ HeaderBytes \in Seq(Octets) /\ Len(HeaderBytes) = HeaderSize /\ HeaderSize \in Nat \ {0}
    /\ SubSeq(HeaderBytes, 1, HeaderSize) = HeaderBytes
    /\ Terminator \in Seq(Octets) /\ Len(Terminator) = 5
<1>1. HeaderSize \in Nat \ {0}
  BY MailerAssumption
<1>2. /\ \A i \in 1..HeaderSize : <<"header", i>> \in Octets
      /\ \A i \in 1..5 : <<"end", i>> \in Octets
  <2>1. \A i \in Nat : <<"header", i>> \in Octets /\ <<"end", i>> \in Octets
    BY DEF Octets
  <2>2. \A n \in Nat : \A i \in 1..n : i \in Nat
    OBVIOUS
  <2>3. QED BY <1>1, <2>1, <2>2
<1>3. /\ HeaderBytes \in Seq(Octets) /\ Len(HeaderBytes) = HeaderSize
      /\ \A i \in 1..HeaderSize : HeaderBytes[i] = <<"header", i>>
  <2>1. HeaderBytes \in [1..HeaderSize -> Octets]
    BY <1>2, Zenon DEF HeaderBytes
  <2>2. QED BY <1>1, <2>1, FunctionIsSeq DEF HeaderBytes
<1>4. Terminator \in Seq(Octets) /\ Len(Terminator) = 5
  <2>1. Terminator \in [1..5 -> Octets] /\ 5 \in Nat
    BY <1>2, Zenon DEF Terminator
  <2>2. PICK n \in Nat : n = 5
    OBVIOUS
  <2>3. Terminator \in [1..n -> Octets]
    BY <2>1, <2>2
  <2>4. Terminator \in Seq(Octets) /\ Len(Terminator) = n
    BY <2>3, FunctionIsSeq
  <2>5. QED BY <2>2, <2>4
<1>5. SubSeq(HeaderBytes, 1, HeaderSize) = HeaderBytes
  <2>1. SubSeq(HeaderBytes, 1, HeaderSize) \in Seq(Octets)
        /\ Len(SubSeq(HeaderBytes, 1, HeaderSize)) = HeaderSize
        /\ \A i \in 1..HeaderSize : SubSeq(HeaderBytes, 1, HeaderSize)[i] = HeaderBytes[i]
    BY <1>1, <1>3
  <2>2. QED BY <1>3, <2>1, SeqEqual
<1>6. QED BY <1>1, <1>3, <1>4, <1>5

(* One buffer of the header.                                                *)
LEMMA HeaderReads ==
    ASSUME setup \in Setups, NEW m \in Mails, Fitting(m), NEW p, DOMAIN p = Fields,
           InHeader(p, m)
    PROVE  LET q == HeaderPart(p, setup[m].buffer) IN ReadOf(q, m) /\ Len(q.sent) # Len(p.sent)
<1> DEFINE q == HeaderPart(p, setup[m].buffer)
<1>1. PICK r \in Nat, k \in Nat :
          /\ p.read_offset = r /\ r < HeaderSize /\ r = k * setup[m].buffer
          /\ p.sent = SubSeq(HeaderBytes, 1, r)
  BY DEF InHeader
<1>2. PICK max \in Nat : max = setup[m].buffer /\ max >= 5 /\ HeaderSize % max # 0
  BY SetupType DEF Fitting
<1>3. HeaderSize \in Nat /\ ~p.header_sent /\ ~p.data_sent
  BY HeaderText DEF InHeader
<1>4. CASE max > HeaderSize - r
  <2>1. PICK n \in Nat : n = HeaderSize - r /\ n > 0
    BY <1>1, <1>3
  <2>2. /\ q.sent = p.sent \o SubSeq(HeaderBytes, r + 1, r + n)
        /\ q.header_sent /\ q.read_offset = 0 /\ ~q.data_sent /\ DOMAIN q = Fields
    BY <1>3, <1>1, <1>2, <1>4, <2>1 DEF HeaderPart, Fields
  <2>3. r + n = HeaderSize
    BY <1>1, <1>3, <2>1
  <2>4. q.sent = HeaderBytes /\ Len(p.sent) = r
    <3>1. SubSeq(HeaderBytes, 1, r) \o SubSeq(HeaderBytes, r + 1, r + n) = SubSeq(HeaderBytes, 1, r + n)
          /\ Len(SubSeq(HeaderBytes, 1, r)) = r
      <4>1. HeaderBytes \in Seq(Octets) /\ r + n <= Len(HeaderBytes)
        BY <2>3, HeaderText
      <4>2. QED BY <4>1, PrefixGrows
    <3>2. SubSeq(HeaderBytes, 1, r + n) = HeaderBytes
      BY <2>3, HeaderText
    <3> HIDE DEF q
    <3>3. QED BY <1>1, <2>2, <3>1, <3>2
  <2>5. HeaderBytes \o Lines(Text(m), 0, 0) = HeaderBytes
    <3>1. Lines(Text(m), 0, 0) = <<>>
      <4>1. CodesOf(Text(m), 0, 0) = <<>>
        BY DEF CodesOf
      <4>2. Lines(Text(m), 0, 0) = FlattenSeq(CodesOf(Text(m), 0, 0))
        BY TextOf, LinesOf
      <4>3. QED BY <4>1, <4>2, FlattenEmpty
    <3>2. QED BY <3>1, HeaderText
  <2> HIDE DEF q
  <2>6. InBody(q, m)
    <3>1. 0 \in 0..Groups(setup[m].size)
      BY TextOf
    <3>2. QED BY <2>2, <2>4, <2>5, <3>1 DEF InBody
  <2>7. Len(q.sent) # Len(p.sent)
    BY <1>1, <2>4, HeaderText
  <2>8. QED BY <2>2, <2>6, <2>7 DEF q, ReadOf
<1>5. CASE ~(max > HeaderSize - r)
  <2>1. /\ q.sent = p.sent \o SubSeq(HeaderBytes, r + 1, r + max)
        /\ ~q.header_sent /\ q.read_offset = r + max /\ ~q.data_sent /\ DOMAIN q = Fields
    BY <1>3, <1>1, <1>2, <1>5 DEF HeaderPart, Fields
  <2>2. r + max = (k + 1) * max
    <3>1. \A a, b \in Nat : (a + 1) * b = (a * b) + b
      OBVIOUS
    <3>2. r = k * max
      BY <1>1, <1>2
    <3>3. QED BY <3>1, <3>2
  <2>3. r + max # HeaderSize
    <3>1. ((k + 1) * max) % max = 0
      BY <1>2, Multiples
    <3>2. QED BY <1>2, <2>2, <3>1
  <2>4. r + max < HeaderSize
    BY <1>3, <1>5, <2>3
  <2>5. /\ q.sent = SubSeq(HeaderBytes, 1, r + max)
        /\ Len(p.sent) = r /\ Len(q.sent) = r + max
    <3>1. /\ SubSeq(HeaderBytes, 1, r) \o SubSeq(HeaderBytes, r + 1, r + max)
             = SubSeq(HeaderBytes, 1, r + max)
          /\ Len(SubSeq(HeaderBytes, 1, r)) = r /\ Len(SubSeq(HeaderBytes, 1, r + max)) = r + max
      <4>1. HeaderBytes \in Seq(Octets) /\ r + max <= Len(HeaderBytes)
        BY <1>3, <2>4, HeaderText
      <4>2. QED BY <4>1, PrefixGrows
    <3> HIDE DEF q
    <3>2. QED BY <1>1, <2>1, <3>1
  <2> HIDE DEF q
  <2>6. InHeader(q, m)
    <3>1. r + max \in Nat /\ k + 1 \in Nat
      OBVIOUS
    <3>2. QED BY <1>2, <1>3, <2>1, <2>2, <2>4, <2>5, <3>1 DEF InHeader
  <2>7. Len(q.sent) # Len(p.sent)
    BY <1>2, <2>5
  <2>8. QED BY <2>1, <2>6, <2>7 DEF q, ReadOf
<1>6. QED BY <1>4, <1>5

(* A line break and a character fit into any buffer.                        *)
LEMMA FirstFits ==
    ASSUME NEW r \in Nat
    PROVE  Bytes(r, 0) = 0 /\ Looked(r + 0) <= 2
<1>1. {i \in r..r + 0 - 1 : LineStarts(i)} = {}
  OBVIOUS
<1>2. Cardinality({i \in r..r + 0 - 1 : LineStarts(i)}) = 0
  BY <1>1, FS_EmptySet
<1>3. Bytes(r, 0) = 0
  BY <1>2 DEF Bytes
<1>4. QED BY <1>3 DEF Looked

(* One buffer of the body, and the end behind the last character.           *)
LEMMA BodyReads ==
    ASSUME setup \in Setups, NEW m \in Mails, Fitting(m), NEW p, DOMAIN p = Fields,
           InBody(p, m)
    PROVE  LET q == BodyPart(p, Text(m), setup[m].buffer)
           IN  ReadOf(q, m) /\ Len(q.sent) # Len(p.sent)
<1> DEFINE q == BodyPart(p, Text(m), setup[m].buffer)
<1>1. PICK chars \in Seq(Chars) : chars = Text(m) /\ Len(chars) = Groups(setup[m].size)
  BY TextOf
<1>2. PICK max \in Nat : max = setup[m].buffer /\ max >= 5
  BY SetupType DEF Fitting
<1>3. PICK r \in Nat : p.read_offset = r /\ r <= Len(chars)
  BY <1>1, TextOf DEF InBody
<1>4. Len(chars) \in Nat /\ p.header_sent /\ ~p.data_sent /\ p.sent = HeaderBytes \o Lines(chars, 0, r)
  BY <1>1, <1>3, LenProperties DEF InBody
<1>5. PICK n \in Nat :
          /\ n = Characters(r, Len(chars) - r, max) /\ r + n <= Len(chars)
          /\ r + n < Len(chars) => Bytes(r, n) + Looked(r + n) > max
  <2>1. PICK left \in Nat : left = Len(chars) - r
    <3>1. Len(chars) - r \in Nat
      BY <1>3, LenProperties
    <3>2. QED BY <3>1
  <2>2. /\ Characters(r, left, max) \in 0..left
        /\ Characters(r, left, max) < left =>
             Bytes(r, Characters(r, left, max)) + Looked(r + Characters(r, left, max)) > max
    BY CharactersType
  <2>3. PICK n \in 0..left : n = Characters(r, left, max)
    BY <2>2
  <2>4. n \in Nat /\ r + n <= Len(chars) /\ (r + n < Len(chars) => n < left)
    BY <1>4, <2>1
  <2>5. QED BY <2>1, <2>2, <2>3, <2>4
<1>6. n = 0 => r = Len(chars)
  <2>1. ASSUME n = 0, r # Len(chars) PROVE FALSE
    <3>1. Bytes(r, 0) + Looked(r + 0) > max
      BY <1>3, <1>4, <1>5, <2>1
    <3>2. Bytes(r, 0) = 0 /\ Looked(r + 0) \in Nat /\ Looked(r + 0) <= 2
      BY FirstFits DEF Looked
    <3>3. QED BY <1>2, <3>1, <3>2
  <2>2. QED BY <2>1
<1>7. PICK front \in Seq(Octets) : front = Lines(chars, 0, r)
  BY <1>3, LinesOf
<1>8. PICK piece \in Seq(Octets) : piece = Lines(chars, r, n)
  BY <1>5, LinesOf
<1>9. /\ Len(piece) \in Nat /\ (n # 0 => Len(piece) # 0) /\ (n = 0 => Len(piece) = 0)
  <2>1. CASE n = 0
    <3>1. CodesOf(chars, r, 0) = <<>>
      BY DEF CodesOf
    <3>2. piece = FlattenSeq(CodesOf(chars, r, 0))
      BY <1>5, <1>8, <2>1, LinesOf
    <3>3. piece = <<>>
      BY <3>1, <3>2, FlattenEmpty
    <3>4. QED BY <2>1, <3>3
  <2>2. CASE n # 0
    BY <1>5, <1>8, <2>2, LinesGrow
  <2>3. QED BY <2>1, <2>2
<1>10. PICK whole \in Seq(Octets) : whole = Lines(chars, 0, r + n)
  <2>1. r + n \in Nat /\ 0 + (r + n) <= Len(chars)
    BY <1>5
  <2>2. QED BY <2>1, LinesOf
<1>11. front \o piece = whole
  <2>1. PICK o \in Nat : o = 0
    OBVIOUS
  <2>2. o + r = r /\ o + r + n <= Len(chars)
    BY <1>5, <2>1
  <2>3. Lines(chars, o, r) \o Lines(chars, o + r, n) = Lines(chars, o, r + n)
    BY <2>2, LinesConcat
  <2>4. QED BY <1>7, <1>8, <1>10, <2>1, <2>2, <2>3
<1> DEFINE ends == r + n = Len(chars) /\ max - Len(piece) \notin 0..4
<1>12. /\ q.sent = (p.sent \o piece) \o (IF ends THEN Terminator ELSE <<>>)
       /\ q.header_sent /\ q.read_offset = r + n /\ q.data_sent = ends /\ DOMAIN q = Fields
  BY <1>1, <1>2, <1>3, <1>4, <1>5, <1>8 DEF BodyPart, Fields
<1>13. n = 0 => ends
  BY <1>2, <1>4, <1>6, <1>9
<1> HIDE DEF q, ends
<1>14. p.sent \o piece = HeaderBytes \o whole
  <2>1. Moves(HeaderBytes, front, piece)
    BY HeaderText, Moving
  <2>2. QED BY <1>4, <1>7, <1>11, <2>1 DEF Moves
<1>15. PICK text \in Seq(Octets) : text = HeaderBytes \o whole /\ Len(text) = HeaderSize + Len(whole)
  <2>1. PICK head \in Seq(Octets) : head = HeaderBytes /\ Len(head) = HeaderSize
    BY HeaderText
  <2>2. head \o whole \in Seq(Octets) /\ Len(head \o whole) = Len(head) + Len(whole)
    BY ConcatLength
  <2>3. QED BY <2>1, <2>2
<1>16. Len(p.sent) = HeaderSize + Len(front) /\ Len(whole) = Len(front) + Len(piece)
       /\ Len(front) \in Nat
  <2>1. PICK head \in Seq(Octets) : head = HeaderBytes /\ Len(head) = HeaderSize
    BY HeaderText
  <2>2. Len(head \o front) = Len(head) + Len(front) /\ Len(front \o piece) = Len(front) + Len(piece)
    BY ConcatLength
  <2>3. p.sent = head \o front
    BY <1>4, <1>7, <2>1
  <2>4. QED BY <1>11, <2>1, <2>2, <2>3
<1>17. CASE ends
  <2>1. q.sent = text \o Terminator /\ Len(q.sent) = Len(text) + 5
    <3>1. PICK end \in Seq(Octets) : end = Terminator /\ Len(end) = 5
      BY HeaderText
    <3>2. Len(text \o end) = Len(text) + Len(end)
      BY ConcatLength
    <3>3. q.sent = text \o end
      BY <1>12, <1>14, <1>15, <1>17, <3>1
    <3>4. QED BY <3>1, <3>2, <3>3
  <2>2. r + n = Len(chars)
    BY <1>17 DEF ends
  <2>3. WholeText(m) = text \o Terminator
    BY <1>1, <1>10, <1>15, <2>2 DEF WholeText, Text
  <2>4. ReadOut(q, m)
    BY <1>12, <1>17, <2>1, <2>3 DEF ReadOut
  <2>5. Len(q.sent) # Len(p.sent)
    BY <1>9, <1>15, <1>16, <2>1, HeaderText
  <2>6. QED BY <1>12, <2>4, <2>5 DEF ReadOf, q
<1>18. CASE ~ends
  <2>1. q.sent = text
    <3>1. q.sent = text \o <<>>
      BY <1>12, <1>14, <1>15, <1>18
    <3>2. QED BY <3>1, ConcatEmptySeq
  <2>2. InBody(q, m)
    <3>1. r + n \in 0..Groups(setup[m].size)
      BY <1>1, <1>5
    <3>2. QED BY <1>1, <1>10, <1>12, <1>15, <1>18, <2>1, <3>1 DEF InBody
  <2>3. Len(q.sent) # Len(p.sent)
    BY <1>9, <1>13, <1>15, <1>16, <1>18, <2>1, HeaderText
  <2>4. QED BY <1>12, <2>2, <2>3 DEF ReadOf, q
<1>19. QED BY <1>17, <1>18

(* One callback: a mail that was read on has more bytes, or was read out.   *)
LEMMA CopyReads ==
    ASSUME setup \in Setups, NEW m \in Mails, Fitting(m), NEW p, ReadOf(p, m)
    PROVE  LET q == copySmtpData(p, Text(m), setup[m].buffer)
           IN  ReadOf(q, m) /\ (p.data_sent => q.data_sent)
               /\ (Len(q.sent) = Len(p.sent) => q.data_sent)
<1> DEFINE q == copySmtpData(p, Text(m), setup[m].buffer)
<1>1. CASE ReadOut(p, m)
  <2>1. p.data_sent /\ q = p
    BY <1>1 DEF ReadOut, copySmtpData
  <2>2. QED BY <2>1
<1>2. CASE InBody(p, m)
  <2>1. ~p.data_sent /\ q = BodyPart(p, Text(m), setup[m].buffer)
    BY <1>2 DEF InBody, copySmtpData
  <2>2. QED BY <1>2, <2>1, BodyReads DEF ReadOf
<1>3. CASE InHeader(p, m)
  <2>1. ~p.data_sent /\ q = HeaderPart(p, setup[m].buffer)
    BY <1>3 DEF InHeader, copySmtpData
  <2>2. QED BY <1>3, <2>1, HeaderReads DEF ReadOf
<1>4. QED BY <1>1, <1>2, <1>3 DEF ReadOf

(* Nothing is read of a mail before it is encoded, and its first encoding   *)
(* is read up to where curl is; curl takes it for read when it is read out. *)
ReadInv(m) ==
    /\ encodings[m] = 0 => easy[m] = "out" /\ msg[m] = NewMsg
    /\ encodings[m] = 1 /\ EvenSize(m) => body_buffer[m] = Text(m)
    /\ encodings[m] = 1 /\ Fitting(m) =>
         ReadOf(msg[m], m) /\ (easy[m] \in {"eof", "ended"} => msg[m].data_sent)
WholeInv == TextInv /\ \A m \in Mails : ReadInv(m)

LEMMA SetupStays ==
    ASSUME UNCHANGED setup, NEW m \in Mails
    PROVE  /\ Text(m)' = Text(m) /\ (EvenSize(m)' <=> EvenSize(m)) /\ (Fitting(m)' <=> Fitting(m))
           /\ \A p : ReadOf(p, m)' <=> ReadOf(p, m)
<1>1. Text(m)' = Text(m) /\ WholeText(m)' = WholeText(m)
  BY DEF Text, WholeText
<1>2. \A p : InHeader(p, m)' <=> InHeader(p, m)
  BY DEF InHeader
<1>3. \A p : InBody(p, m)' <=> InBody(p, m)
  BY <1>1 DEF InBody
<1>4. \A p : ReadOut(p, m)' <=> ReadOut(p, m)
  BY <1>1 DEF ReadOut
<1>5. QED BY <1>1, <1>2, <1>3, <1>4 DEF ReadOf, EvenSize, Fitting

LEMMA SentType ==
    ASSUME setup \in Setups, NEW m \in Mails, NEW p, ReadOf(p, m)
    PROVE  Len(p.sent) \in Nat
<1>1. p.sent \in Seq(Octets)
  <2>1. CASE InHeader(p, m)
    <3>1. PICK r \in Nat : p.sent = SubSeq(HeaderBytes, 1, r) /\ r < HeaderSize
      BY <2>1 DEF InHeader
    <3>2. QED BY <3>1, HeaderText
  <2>2. ASSUME NEW r \in 0..Groups(setup[m].size)
        PROVE  HeaderBytes \o Lines(Text(m), 0, r) \in Seq(Octets)
    <3>1. PICK chars \in Seq(Chars) : chars = Text(m) /\ Len(chars) = Groups(setup[m].size)
      BY TextOf
    <3>2. r \in Nat /\ 0 + r <= Len(chars)
      BY <3>1, TextOf
    <3>3. PICK lines \in Seq(Octets) : lines = Lines(chars, 0, r)
      BY <3>2, LinesOf
    <3>4. HeaderBytes \o lines \in Seq(Octets)
      BY HeaderText, ConcatLength
    <3>5. QED BY <3>1, <3>3, <3>4
  <2>3. CASE InBody(p, m)
    BY <2>2, <2>3 DEF InBody
  <2>4. CASE ReadOut(p, m)
    <3>1. HeaderBytes \o Lines(Text(m), 0, Groups(setup[m].size)) \in Seq(Octets)
      <4>1. Groups(setup[m].size) \in 0..Groups(setup[m].size)
        BY TextOf
      <4>2. QED BY <2>2, <4>1
    <3>2. p.sent = (HeaderBytes \o Lines(Text(m), 0, Groups(setup[m].size))) \o Terminator
      BY <2>4 DEF ReadOut, WholeText, Text
    <3>3. PICK text \in Seq(Octets) : text = HeaderBytes \o Lines(Text(m), 0, Groups(setup[m].size))
      BY <3>1
    <3>4. text \o Terminator \in Seq(Octets)
      BY HeaderText, ConcatLength
    <3>5. QED BY <3>2, <3>3, <3>4
  <2>5. QED BY <2>1, <2>3, <2>4 DEF ReadOf
<1>2. QED BY <1>1, LenProperties

LEMMA NewMsgIs == ASSUME NEW m \in Mails, setup \in Setups PROVE ReadOf(NewMsg, m)
<1>1. DOMAIN NewMsg = Fields
  BY DEF NewMsg, Fields
<1>2. SubSeq(HeaderBytes, 1, 0) = <<>>
  OBVIOUS
<1>3. \E q \in Nat : 0 = q * setup[m].buffer
  <2>1. 0 = 0 * setup[m].buffer
    BY SetupType
  <2>2. QED BY <2>1
<1>4. InHeader(NewMsg, m)
  BY <1>2, <1>3, HeaderText DEF InHeader, NewMsg
<1>5. QED BY <1>1, <1>4 DEF ReadOf

(* What curl_multi_perform() does to one mail.                              *)
LEMMA CurlReads ==
    ASSUME setup \in Setups, NEW S \in SUBSET Mails, NEW fate \in FateOf(S),
           curl_multi_perform(fate), NEW m \in Mails
    PROVE  /\ m \notin S => msg'[m] = msg[m] /\ easy'[m] = easy[m]
           /\ /\ Fitting(m) /\ body_buffer'[m] = Text(m) /\ ReadOf(msg[m], m)
              /\ easy[m] \in {"eof", "ended"} => msg[m].data_sent
              => ReadOf(msg'[m], m) /\ (easy'[m] \in {"eof", "ended"} => msg'[m].data_sent)
<1>1. DOMAIN fate = S /\ \A k \in S : fate[k] \in Fates(k)
  BY DEF FateOf
<1>2. m \in S => fate[m] \in {"wait", "fail", "read", "end"} /\ (fate[m] = "end" => easy[m] = "eof")
  BY <1>1 DEF Fates
<1>3. easy'[m] = IF m \notin S THEN easy[m]
                 ELSE CASE fate[m] = "wait" -> IF easy[m] = "out" THEN "running" ELSE easy[m]
                        [] fate[m] = "fail" -> "failed"
                        [] fate[m] = "end"  -> "ended"
                        [] fate[m] = "read" -> AfterRead(m)
  <2>1. easy' = [k \in Mails |->
                   IF k \notin S THEN easy[k]
                   ELSE CASE fate[k] = "wait" -> IF easy[k] = "out" THEN "running" ELSE easy[k]
                          [] fate[k] = "fail" -> "failed"
                          [] fate[k] = "end"  -> "ended"
                          [] fate[k] = "read" -> AfterRead(k)]
    BY <1>1 DEF curl_multi_perform
  <2>2. QED BY <2>1
<1>4. msg'[m] = IF m \in S /\ fate[m] = "read" THEN Copied(m) ELSE msg[m]
  BY <1>1 DEF curl_multi_perform
<1>5. ASSUME Fitting(m), body_buffer'[m] = Text(m), ReadOf(msg[m], m),
             easy[m] \in {"eof", "ended"} => msg[m].data_sent
      PROVE  ReadOf(msg'[m], m) /\ (easy'[m] \in {"eof", "ended"} => msg'[m].data_sent)
  <2>1. PICK p : p = msg[m]
    OBVIOUS
  <2>2. PICK q : q = Copied(m)
    OBVIOUS
  <2>3. q = copySmtpData(p, Text(m), setup[m].buffer)
    BY <1>5, <2>1, <2>2 DEF Copied
  <2>4. /\ ReadOf(q, m) /\ (p.data_sent => q.data_sent)
        /\ Len(q.sent) = Len(p.sent) => q.data_sent
    BY <1>5, <2>1, <2>3, CopyReads
  <2>5. CASE m \in S /\ fate[m] = "read"
    <3>1. easy'[m] = AfterRead(m) /\ msg'[m] = q
      BY <1>3, <1>4, <2>2, <2>5
    <3>2. easy'[m] \in {"eof", "ended"} => CopiedBytes(m) = 0
      BY <3>1 DEF AfterRead
    <3>3. CopiedBytes(m) = Len(q.sent) - Len(p.sent)
      BY <2>1, <2>2 DEF CopiedBytes
    <3>4. Len(q.sent) \in Nat /\ Len(p.sent) \in Nat
      BY <1>5, <2>1, <2>4, SentType
    <3>5. QED BY <2>4, <3>1, <3>2, <3>3, <3>4
  <2>6. CASE ~(m \in S /\ fate[m] = "read")
    <3>1. msg'[m] = msg[m]
      BY <1>4, <2>6
    <3>2. easy'[m] \in {"eof", "ended"} => easy[m] \in {"eof", "ended"}
      BY <1>2, <1>3, <2>6
    <3>3. QED BY <1>5, <3>1, <3>2
  <2>7. QED BY <2>5, <2>6
<1>6. QED BY <1>3, <1>4, <1>5

(* A mail whose text and encoding no step touches.                          *)
LEMMA ReadStays ==
    ASSUME UNCHANGED setup, NEW m \in Mails, ReadInv(m), encodings'[m] = encodings[m],
           body_buffer'[m] = body_buffer[m],
           \/ /\ msg'[m] = msg[m]
              /\ easy[m] = "out" => easy'[m] = "out"
              /\ easy'[m] \in {"eof", "ended"} => easy[m] \in {"eof", "ended"}
           \/ setup \in Setups /\ \E S \in SUBSET Mails : \E fate \in FateOf(S) :
                  curl_multi_perform(fate) /\ (encodings[m] = 0 => m \notin S)
    PROVE  ReadInv(m)'
<1>1. /\ Text(m)' = Text(m) /\ (EvenSize(m)' <=> EvenSize(m)) /\ (Fitting(m)' <=> Fitting(m))
      /\ \A p : ReadOf(p, m)' <=> ReadOf(p, m)
  BY SetupStays
<1>2. CASE /\ msg'[m] = msg[m]
           /\ easy[m] = "out" => easy'[m] = "out"
           /\ easy'[m] \in {"eof", "ended"} => easy[m] \in {"eof", "ended"}
  <2>1. PICK p : p = msg[m]
    OBVIOUS
  <2>2. p = msg'[m] /\ (ReadOf(p, m)' <=> ReadOf(p, m))
    BY <1>1, <1>2, <2>1
  <2>3. QED BY <1>1, <1>2, <2>1, <2>2 DEF ReadInv
<1>3. ASSUME setup \in Setups, NEW S \in SUBSET Mails, NEW fate \in FateOf(S),
             curl_multi_perform(fate), encodings[m] = 0 => m \notin S
      PROVE  ReadInv(m)'
  <2>1. /\ m \notin S => msg'[m] = msg[m] /\ easy'[m] = easy[m]
        /\ /\ Fitting(m) /\ body_buffer'[m] = Text(m) /\ ReadOf(msg[m], m)
           /\ easy[m] \in {"eof", "ended"} => msg[m].data_sent
           => ReadOf(msg'[m], m) /\ (easy'[m] \in {"eof", "ended"} => msg'[m].data_sent)
    BY <1>3, CurlReads
  <2>2. CASE encodings[m] = 0
    BY <1>3, <2>1, <2>2 DEF ReadInv
  <2>3. CASE encodings[m] = 1 /\ EvenSize(m) /\ ~Fitting(m)
    BY <1>1, <2>3 DEF ReadInv
  <2>4. CASE encodings[m] = 1 /\ EvenSize(m) /\ Fitting(m)
    <3>1. ReadOf(msg'[m], m) /\ (easy'[m] \in {"eof", "ended"} => msg'[m].data_sent)
      BY <2>1, <2>4 DEF ReadInv
    <3>2. PICK p : p = msg'[m]
      OBVIOUS
    <3>3. ReadOf(p, m)'
      BY <1>1, <3>1, <3>2
    <3>4. body_buffer'[m] = Text(m)' /\ encodings'[m] # 0
      BY <1>1, <2>4 DEF ReadInv
    <3>5. QED BY <3>1, <3>2, <3>3, <3>4 DEF ReadInv
  <2>5. CASE encodings[m] = 1 /\ ~EvenSize(m)
    BY <1>1, <2>5 DEF ReadInv, Fitting
  <2>6. CASE encodings[m] # 0 /\ encodings[m] # 1
    BY <2>6 DEF ReadInv
  <2>7. QED BY <2>2, <2>3, <2>4, <2>5, <2>6
<1>4. QED BY <1>2, <1>3

(* send() encodes the mail; curl may read what it holds now.                *)
LEMMA SendReads ==
    ASSUME setup \in Setups, UNCHANGED setup, BodyInv, NEW m \in Mails, ReadInv(m), Send(m)
    PROVE  ReadInv(m)'
<1>1. /\ Text(m)' = Text(m) /\ (EvenSize(m)' <=> EvenSize(m)) /\ (Fitting(m)' <=> Fitting(m))
      /\ \A p : ReadOf(p, m)' <=> ReadOf(p, m)
  BY SetupStays
<1>2. initializeSend(m) /\ encodings' = [encodings EXCEPT ![m] = @ + 1] /\ encodings[m] \in Nat
  BY MailerAssumption DEF Send, initializeSend, BodyInv
<1>3. encodings'[m] = encodings[m] + 1
  BY <1>2 DEF BodyInv
<1>4. CASE encodings[m] # 0
  <2>1. encodings'[m] # 0 /\ encodings'[m] # 1
    BY <1>2, <1>3, <1>4
  <2>2. QED BY <2>1 DEF ReadInv
<1>5. CASE encodings[m] = 0
  <2>1. encodings'[m] = 1 /\ easy[m] = "out" /\ msg[m] = NewMsg
    BY <1>3, <1>5 DEF ReadInv
  <2>2. EvenSize(m) => body_buffer'[m] = Text(m)
    BY <1>2, <1>5, EncodedOnce
  <2>3. ASSUME Fitting(m)
        PROVE  ReadOf(msg'[m], m) /\ (easy'[m] \in {"eof", "ended"} => msg'[m].data_sent)
    <3>1. ReadOf(msg[m], m) /\ body_buffer'[m] = Text(m)
      BY <2>1, <2>2, <2>3, NewMsgIs DEF Fitting
    <3>2. CASE UNCHANGED <<easy, msg>>
      BY <2>1, <3>1, <3>2
    <3>3. ASSUME NEW fate \in FateOf(Running \cup {m}), curl_multi_perform(fate)
          PROVE  ReadOf(msg'[m], m) /\ (easy'[m] \in {"eof", "ended"} => msg'[m].data_sent)
      <4>1. Running \cup {m} \in SUBSET Mails
        BY DEF Running
      <4>2. easy[m] \in {"eof", "ended"} => msg[m].data_sent
        BY <2>1
      <4>3. QED BY <2>3, <3>1, <3>3, <4>1, <4>2, CurlReads
    <3>4. QED BY <3>2, <3>3 DEF Send
  <2>4. PICK p : p = msg'[m]
    OBVIOUS
  <2>5. Fitting(m)' => ReadOf(p, m)' /\ (easy'[m] \in {"eof", "ended"} => p.data_sent)
    BY <1>1, <2>3, <2>4
  <2>6. QED BY <1>1, <2>1, <2>2, <2>4, <2>5 DEF ReadInv
<1>6. QED BY <1>4, <1>5

LEMMA WholeNext == OwnInv /\ WholeInv /\ [Next]_vars => WholeInv'
<1> SUFFICES ASSUME OwnInv, WholeInv, [Next]_vars PROVE WholeInv'
  OBVIOUS
<1>1. TextInv' /\ setup \in Setups /\ BodyInv
  BY TextNext DEF WholeInv, TextInv
<1>2. UNCHANGED setup
  BY DEF Next, vars, Create, Drop, Send, SendGone, perform, PerformClears, PerformFails, Clear,
         PerformWorks, Destroy
<1>3. ASSUME NEW m \in Mails PROVE ReadInv(m)'
  <2>0. ReadInv(m)
    BY DEF WholeInv
  <2>1. ASSUME UNCHANGED <<easy, msg, texts>> PROVE ReadInv(m)'
    BY <1>2, <2>0, <2>1, ReadStays
  <2>2. ASSUME UNCHANGED <<msg, texts>>,
               easy' = [k \in Mails |-> IF IsRunning(k) THEN "cleared" ELSE easy[k]]
        PROVE  ReadInv(m)'
    <3>1. /\ easy[m] = "out" => easy'[m] = "out"
          /\ easy'[m] \in {"eof", "ended"} => easy[m] \in {"eof", "ended"}
      BY <2>2 DEF IsRunning
    <3>2. QED BY <1>2, <2>0, <2>2, <3>1, ReadStays
  <2>3. ASSUME NEW k \in Mails, Send(k) PROVE ReadInv(m)'
    <3>1. CASE k = m
      BY <1>1, <1>2, <2>0, <2>3, <3>1, SendReads
    <3>2. CASE k # m
      <4>1. /\ encodings' = [encodings EXCEPT ![k] = @ + 1]
            /\ \E b : body_buffer' = [body_buffer EXCEPT ![k] = b]
        BY <2>3 DEF Send, initializeSend
      <4>2. encodings'[m] = encodings[m] /\ body_buffer'[m] = body_buffer[m]
        BY <1>1, <3>2, <4>1 DEF BodyInv
      <4>3. CASE UNCHANGED <<easy, msg>>
        BY <1>2, <2>0, <4>2, <4>3, ReadStays
      <4>4. ASSUME NEW fate \in FateOf(Running \cup {k}), curl_multi_perform(fate)
            PROVE  ReadInv(m)'
        <5>1. Running \cup {k} \in SUBSET Mails
          BY DEF Running
        <5>2. encodings[m] = 0 => m \notin Running \cup {k}
          BY <2>0, <3>2 DEF ReadInv, Running, IsRunning
        <5>3. QED BY <1>1, <1>2, <2>0, <4>2, <4>4, <5>1, <5>2, ReadStays
      <4>5. QED BY <2>3, <4>3, <4>4 DEF Send
    <3>3. QED BY <3>1, <3>2
  <2>4. CASE PerformWorks
    <3>1. PICK fate \in FateOf(Running) : curl_multi_perform(fate)
      BY <2>4 DEF PerformWorks
    <3>2. UNCHANGED <<encodings, body_buffer>>
      BY <2>4 DEF PerformWorks
    <3>3. Running \in SUBSET Mails /\ (encodings[m] = 0 => m \notin Running)
      BY <2>0 DEF ReadInv, Running, IsRunning
    <3>4. QED BY <1>1, <1>2, <2>0, <3>1, <3>2, <3>3, ReadStays
  <2>5. CASE UNCHANGED vars
    BY <2>1, <2>5 DEF vars
  <2>6. ASSUME NEW k \in Mails, Drop(k) \/ SendGone(k) PROVE ReadInv(m)'
    BY <2>1, <2>6 DEF Drop, SendGone
  <2>7. ASSUME NEW k \in Mails, Create(k) PROVE ReadInv(m)'
    <3>1. /\ encodings' = [encodings EXCEPT ![k] = 0] /\ easy' = [easy EXCEPT ![k] = "out"]
          /\ body_buffer' = [body_buffer EXCEPT ![k] = <<>>] /\ msg' = [msg EXCEPT ![k] = NewMsg]
      BY <2>7 DEF Create
    <3>2. m = k => encodings'[m] = 0 /\ msg'[m] = NewMsg
      BY <1>1, <3>1 DEF BodyInv, WholeInv, TextInv
    <3>3. m = k => easy'[m] = "out"
      BY <3>1 DEF OwnInv
    <3>4. CASE m = k
      BY <3>2, <3>3, <3>4 DEF ReadInv
    <3>5. CASE m # k
      <4>1. encodings'[m] = encodings[m] /\ body_buffer'[m] = body_buffer[m]
        BY <1>1, <3>1, <3>5 DEF BodyInv
      <4>2. msg'[m] = msg[m] /\ easy'[m] = easy[m]
        BY <3>1, <3>5
      <4> QED BY <1>2, <2>0, <4>1, <4>2, ReadStays
    <3> QED BY <3>4, <3>5
  <2>8. CASE PerformClears \/ PerformFails \/ Destroy
    BY <2>2, <2>8 DEF PerformClears, PerformFails, Clear, Destroy
  <2>9. QED BY <2>3, <2>4, <2>5, <2>6, <2>7, <2>8 DEF Next, perform
<1>4. QED BY <1>1, <1>3 DEF WholeInv

(* However curl's buffer cuts it, between lines or inside one, a mail that  *)
(* curl took to be sent is all there: the header, each line of the body     *)
(* behind its line break, and the end, for every length, line and buffer    *)
(* that the property allows (SmtpMailer::copySmtpData, base64_encode).      *)
THEOREM MailWhole == Spec => []WholeMail
<1>1. Init => WholeInv
  <2> SUFFICES ASSUME Init PROVE WholeInv
    OBVIOUS
  <2>1. TextInv
    BY TextInit
  <2>2. ASSUME NEW m \in Mails PROVE ReadInv(m)
    <3>1. encodings[m] = 0 /\ easy[m] = "out" /\ msg[m] = NewMsg
      BY DEF Init
    <3>2. QED BY <3>1 DEF ReadInv
  <2>3. QED BY <2>1, <2>2 DEF WholeInv
<1>2. WholeInv => WholeMail
  <2> SUFFICES ASSUME WholeInv, NEW m \in Mails, easy[m] = "ended", Regular(m)
               PROVE  msg[m].sent = WholeText(m)
    BY DEF WholeMail
  <2>1. encodings[m] = 1 /\ Fitting(m)
    BY DEF Regular, Fitting, EvenSize
  <2>2. ReadOf(msg[m], m) /\ msg[m].data_sent
    BY <2>1 DEF WholeInv, ReadInv
  <2>3. QED BY <2>2 DEF ReadOf, InHeader, InBody, ReadOut
<1>3. QED BY <1>1, <1>2, AlwaysOwned, WholeNext, PTL DEF Spec
=============================================================================
