------------------------------- MODULE Images -------------------------------
(***************************************************************************)
(* The images that scraps, book covers and the profile name, and the       *)
(* objects in the storage.  A client asks for a key, uploads to it, and    *)
(* names it in a request.  The request checks the object, commits the row, *)
(* and only then deletes the object that the row named before.             *)
(***************************************************************************)
EXTENDS Integers, FiniteSetsExt

CONSTANTS
  Images,        \* the keys handed out
  Elsewhere,     \* no image, or one that is not in the storage: a shop's cover, a data URL
  Holders,       \* the rows that can name an image: scraps, books, and the profile
  Profile,       \* the one that is always there, and has rules of its own
  Fits,          \* the images whose path and owner a row accepts
  ImageRequests  \* the requests that can be in progress at the same time

ASSUME ImageAssumption == Profile \in Holders /\ Elsewhere \notin Images
                          /\ Fits \in [Holders -> SUBSET Images]

VARIABLES
  object,  \* what the storage has under each key
  holder,  \* the committed rows: there or not, and the image they name
  imgreq,  \* each request
  named    \* history: how many requests named the image anew, up to two

imageVars == <<object, holder, imgreq, named>>

ImageIdle == [pc |-> "idle", op |-> "none", of |-> Profile, old |-> Elsewhere, new |-> Elsewhere]

ImageInit ==
  /\ object = [x \in Images |-> "none"]
  /\ holder = [h \in Holders |->
       [state |-> IF h = Profile THEN "live" ELSE "none", image |-> Elsewhere]]
  /\ imgreq = [r \in ImageRequests |-> ImageIdle]
  /\ named = [x \in Images |-> 0]

-----------------------------------------------------------------------------
\* generate_*_presigned_url, and the client's PUT; it may upload what is no image.
Upload(x) ==
  /\ object[x] = "none"
  /\ \E sort \in {"stored", "bad"} : object' = [object EXCEPT ![x] = sort]
  /\ UNCHANGED <<holder, imgreq, named>>

Name(x) == named' = [y \in Images |-> IF y = x THEN Min({2, named[y] + 1}) ELSE named[y]]

\* _verify_uploaded_image: what is not there is refused, what is no image deleted as well.
Verified(h, x) == x = Elsewhere \/ (x \in Fits[h] /\ object[x] = "stored")

VerifyRejects(h, x) ==
  /\ holder[h].state # "deleted"
  /\ x \in Fits[h] /\ object[x] = "bad"
  /\ object' = [object EXCEPT ![x] = "none"]
  /\ UNCHANGED <<holder, imgreq, named>>

Begins(r, op, h, new) ==
  /\ imgreq[r].pc = "idle"
  /\ imgreq' = [imgreq EXCEPT ![r] =
       [pc |-> "verified", op |-> op, of |-> h, old |-> holder[h].image, new |-> new]]
  /\ UNCHANGED <<object, holder>>

BeginCreate(r, h, x) ==
  /\ holder[h].state = "none"
  /\ \A o \in ImageRequests : imgreq[o].of = h => imgreq[o].op # "create"
  /\ Verified(h, x)
  /\ Begins(r, "create", h, x)
  /\ Name(x)

\* update_scrap and update_book verify an image that is not the old one, update_profile any.
BeginUpdate(r, h, x) ==
  /\ holder[h].state = "live"
  /\ Verified(h, x) \/ (x = holder[h].image /\ h # Profile)
  /\ Begins(r, "update", h, x)
  /\ IF x # holder[h].image THEN Name(x) ELSE UNCHANGED named

BeginDelete(r, h) ==
  /\ h # Profile /\ holder[h].state = "live"
  /\ Begins(r, "delete", h, Elsewhere)
  /\ UNCHANGED named

\* The UPDATE has the image if it is not the loaded one; it finds its row by id.
ImageCommit(r) ==
  LET q == imgreq[r]
  IN  /\ q.pc = "verified"
      /\ holder' = [holder EXCEPT ![q.of] =
           CASE q.op = "create" -> [state |-> "live", image |-> q.new]
             [] q.op = "update" -> [@ EXCEPT !.image = IF q.new # q.old THEN q.new ELSE holder[q.of].image]
             [] q.op = "delete" -> [@ EXCEPT !.state = "deleted"]]
      /\ imgreq' = [imgreq EXCEPT ![r].pc = "committed"]
      /\ UNCHANGED <<object, named>>

\* Mutant of Obsolete: the old image is deleted without a look at the new one.
ObsoleteAlways(r) == {imgreq[r].old} \ {Elsewhere}

\* delete_* drop the image they had loaded; update_scrap and update_book if the row, read
\* again after the commit, names another; update_profile if it has replaced it.
Obsolete(r) ==
  LET q == imgreq[r]
      kept == CASE q.op = "create" -> {q.old}
                [] q.op = "delete" -> {}
                [] q.op = "update" /\ q.of = Profile -> {q.new}
                [] q.op = "update" /\ q.of # Profile -> {holder[q.of].image}
  IN  {q.old} \ (kept \cup {Elsewhere})

\* delete_image_if_exists; a failure of the storage is logged and forgotten.
DropOld(r) ==
  /\ imgreq[r].pc = "committed"
  /\ \E gone \in SUBSET Obsolete(r) :
       object' = [x \in Images |-> IF x \in gone THEN "none" ELSE object[x]]
  /\ imgreq' = [imgreq EXCEPT ![r] = ImageIdle]
  /\ UNCHANGED <<holder, named>>

\* The process dies, or the client leaves, before the commit.  After it, a death is a
\* deletion that has failed.
ImageDies(r) ==
  /\ imgreq[r].pc = "verified"
  /\ imgreq' = [imgreq EXCEPT ![r] = ImageIdle]
  /\ UNCHANGED <<object, holder, named>>

ImageNext ==
  \/ \E x \in Images : Upload(x) \/ \E h \in Holders : VerifyRejects(h, x)
  \/ \E r \in ImageRequests :
       \/ \E h \in Holders, x \in Images \cup {Elsewhere} : BeginCreate(r, h, x) \/ BeginUpdate(r, h, x)
       \/ \E h \in Holders : BeginDelete(r, h)
       \/ ImageCommit(r) \/ DropOld(r) \/ ImageDies(r)

ImageSpec == ImageInit /\ [][ImageNext]_imageVars

-----------------------------------------------------------------------------
ImageTypeOK ==
  /\ object \in [Images -> {"none", "stored", "bad"}]
  /\ holder \in [Holders -> [state : {"none", "live", "deleted"}, image : Images \cup {Elsewhere}]]
  /\ imgreq \in [ImageRequests ->
       [pc : {"idle", "verified", "committed"}, op : {"none", "create", "update", "delete"},
        of : Holders, old : Images \cup {Elsewhere}, new : Images \cup {Elsewhere}]]
  /\ named \in [Images -> 0 .. 2]

\* Rows lose their image only if a client names one image twice: as long as every upload is
\* used once, the image that a living row names is in the storage, whatever requests overlap
\* and wherever they die.
DanglingOnlyIfReused ==
  \A h \in Holders :
    LET x == holder[h].image
    IN  holder[h].state = "live" /\ x # Elsewhere /\ named[x] = 1 => object[x] = "stored"

=============================================================================
