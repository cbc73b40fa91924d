---------------------------- MODULE MCRedirects ----------------------------
(***************************************************************************)
(* Instances of Redirects for TLC.                                         *)
(***************************************************************************)
EXTENDS Redirects, TLC

CONSTANTS a, b, c, d

Redirect(u, v) == [from |-> u, to |-> v]

\* Every configuration: each URL has one reviewed target, or none.  Those where
\* the target of a is c are left out, b and c being interchangeable.
AllReviews ==
  {edges \in SUBSET {e \in Edges : e.from # e.to} :
     /\ \A e, f \in edges : e.from = f.from => e = f
     /\ Redirect(a, c) \notin edges}

\* b redirects to d, from the URL under which it is recorded.
AliasReview == {{Redirect(a, b), Redirect(c, d)}}

AliasAnswers ==
  UNION AliasReview \union {Redirect(u, NoRedirect) : u \in Urls}

\* Each URL answers with a page or redirects anywhere.
AllAnswers ==
  {r \in [from: Urls, to: Urls \union {NoRedirect}] : r.from # r.to}

\* Wget records every URL as it was asked for.
AsAsked == [u \in Urls |-> u]

\* Wget records b, which has no path, under c, which has "/" for its path.
WithPath == [u \in Urls |-> IF u = b THEN c ELSE u]
=============================================================================
