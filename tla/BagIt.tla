-------------------------------- MODULE BagIt --------------------------------
(***************************************************************************)
(* A bag, and its validation (preservation/bagit.py).                      *)
(*                                                                         *)
(*   data      what the payload files hold                                 *)
(*   plain     what bagit.txt, bag-info.txt and the export record hold     *)
(*   payload   the payload manifests: payload[a] lists data under the      *)
(*             digest a                                                    *)
(*   tag       the tag manifests: tag[a] lists plain and payload           *)
(*                                                                         *)
(* A digest stands for what was hashed.                                    *)
(***************************************************************************)
EXTENDS Naturals, FiniteSets, Functions

CONSTANTS
  Stray,      \* a file of a bag that no capture has
  Tampered    \* what a file holds that was tampered with

Algorithms == {"sha256", "sha512"}
Plain      == {"bagit.txt", "bag-info.txt", "text-preserver-export.json"}

\* create_bag: the bag of these files.
Bag(data) ==
  LET plain   == [t \in Plain |-> "written"]
      payload == [a \in Algorithms |-> data]
  IN [data |-> data, plain |-> plain, payload |-> payload,
      tag |-> [a \in Algorithms |-> [plain |-> plain, payload |-> payload]]]

\* A plausible slip: a manifest is read for what it lists, and not for what it
\* leaves out.
ListsThese(listed, files) ==
  \A f \in DOMAIN listed : f \in DOMAIN files /\ listed[f] = files[f]

\* A payload manifest lists every payload file, no other, with its digest.
Lists(listed, files) == listed = files

\* Every entry of a tag manifest is there and as it was.
Holds(listed, files) ==
  \A f \in DOMAIN listed : f \in DOMAIN files /\ listed[f] = files[f]

\* validate_bag.  (A tag file that no manifest lists is a warning.)
BagValid(bag) ==
  /\ DOMAIN bag.data # {}
  /\ "bagit.txt" \in DOMAIN bag.plain /\ bag.plain["bagit.txt"] = "written"
  /\ DOMAIN bag.payload # {}
  /\ \A a \in DOMAIN bag.payload :
       DOMAIN bag.payload[a] # {} /\ Lists(bag.payload[a], bag.data)
  /\ \A a \in DOMAIN bag.tag :
       /\ DOMAIN bag.payload \subseteq DOMAIN bag.tag[a].payload
       /\ Holds(bag.tag[a].plain, bag.plain)
       /\ Holds(bag.tag[a].payload, bag.payload)
  /\ \A a, b \in DOMAIN bag.tag :
       /\ DOMAIN bag.tag[a].plain = DOMAIN bag.tag[b].plain
       /\ DOMAIN bag.tag[a].payload = DOMAIN bag.tag[b].payload

-----------------------------------------------------------------------------
(* External: what may happen to a bag on its way *)

Without(f, x) == Restrict(f, DOMAIN f \ {x})
With(f, x, y) == [z \in DOMAIN f \union {x} |-> IF z = x THEN y ELSE f[z]]

\* One entry of a file, or a file of a directory, is another, is gone, or is new.
Altered(f) == {With(f, x, Tampered) : x \in DOMAIN f \union {Stray}}
                \union {Without(f, x) : x \in DOMAIN f}

Entries(f) == {With(f, x, Tampered) : x \in DOMAIN f} \union {Without(f, x) : x \in DOMAIN f}

\* Bags in which one file differs.  That a tag manifest is taken away is not
\* among them, nor that a tag file is added: BagIt allows that.
BagFaults(bag) ==
  {[bag EXCEPT !.data = d] : d \in Altered(bag.data)}
  \union {[bag EXCEPT !.plain = p] : p \in Entries(bag.plain)}
  \union {[bag EXCEPT !.payload = Without(@, a)] : a \in Algorithms}
  \union (UNION {{[bag EXCEPT !.payload[a] = m] : m \in Altered(bag.data)} :
                   a \in Algorithms})
  \union (UNION {{[bag EXCEPT !.tag[a].plain = m] : m \in Entries(bag.plain)} :
                   a \in Algorithms})
  \union (UNION {{[bag EXCEPT !.tag[a].payload = Without(@, b)] : b \in Algorithms} :
                   a \in Algorithms})
=============================================================================
