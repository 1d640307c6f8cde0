----------------------------- MODULE KeyedStore -----------------------------
(***************************************************************************)
(* What an encrypted database file promises to whoever opens it: it is one *)
(* set of pages, all of them under one cipher.  A transaction replaces     *)
(* pages and keeps the cipher, changing the key (sqlite3_rekey) replaces   *)
(* the cipher and keeps every page, and nothing else is ever observable:   *)
(* no crash, error, retry or recovery shows an intermediate state.         *)
(* Rekey.tla implements this with a page cache, a rollback journal and a   *)
(* codec that holds two ciphers.                                           *)
(***************************************************************************)
CONSTANTS
  Keys,     \* the keys a database can be encrypted with
  Plain,    \* "no cipher": the content is stored as it is
  Vals,     \* contents of a page
  Page      \* page numbers

VARIABLES
  content,  \* content of every page, as the holder of the key reads it
  key       \* the cipher of the database

vars == <<content, key>>

Cipher == Keys \cup {Plain}

Init ==
  /\ content \in [Page -> Vals]
  /\ key \in Cipher

Write ==
  /\ content' \in [Page -> Vals]
  /\ UNCHANGED key

ChangeKey ==
  /\ key' \in Cipher
  /\ UNCHANGED content

Next == Write \/ ChangeKey

Spec == Init /\ [][Next]_vars
=============================================================================
