------------------------------- MODULE MCRelay -------------------------------
(* Relay on small inputs: two header names (one end-to-end, one hop-by-hop) *)
(* beside those the writers own, and rule files in which the order of rules *)
(* and operations matters, one of which sets what the writers own.          *)
EXTENDS Relay, TLC

CONSTANTS
  x, up, v1, v2,    \* header names (up is hop-by-hop) and values
  joined,           \* the target v1 as seen from the URL with post
  post              \* a URL fragment

Set(n, v, onResp) ==
  [name |-> n, value |-> v, remove |-> FALSE, onResp |-> onResp]
Del(n, onResp) ==
  [name |-> n, value |-> Absent, remove |-> TRUE, onResp |-> onResp]

Rule(enabled, method, url, action, headers) ==
  [enabled |-> enabled, method |-> method, urlContains |-> url,
   action |-> action, headers |-> headers, redirectTo |-> v1]

PostOnly == <<"POST", "upper">>

RewriteX == Rule(TRUE, Wildcard, Wildcard, "rewrite-header",
                 <<Set(x, v1, FALSE), Del(x, TRUE), Set(up, v1, FALSE)>>)
RewriteXAgain == Rule(TRUE, Wildcard, Wildcard, "rewrite-header",
                      <<Del(x, FALSE), Set(x, v2, FALSE), Set(x, v2, TRUE)>>)
DropX == Rule(TRUE, PostOnly, Wildcard, "rewrite-header", <<Del(x, FALSE)>>)
BlockPost == Rule(TRUE, PostOnly, Wildcard, "block", <<>>)
BlockNothing == Rule(FALSE, Wildcard, Wildcard, "block", <<>>)
RedirectUrl == Rule(TRUE, Wildcard, post, "redirect", <<>>)

MCItoa == [n \in 0 .. MaxBody + 2 |-> ToString(n)]
MCResolve == [p \in {v1} \X {{}, {post}} |-> IF p[2] = {} THEN p[1] ELSE joined]

(* Rewrites of what the writers own: a length, another one, no type.        *)
Lengthen == Rule(TRUE, Wildcard, Wildcard, "rewrite-header",
                 <<Set(ContentLength, MCItoa[1], TRUE), Del(ContentType, TRUE)>>)
Chunk == Rule(TRUE, PostOnly, Wildcard, "rewrite-header",
              <<Set(TransferEncoding, v1, TRUE), Del(ContentLength, TRUE)>>)

MCRuleLists ==
  {<<>>,
   <<RewriteX, RewriteXAgain>>,
   <<RewriteXAgain, RewriteX, DropX>>,
   <<RewriteX, BlockNothing, BlockPost, RedirectUrl>>,
   <<RedirectUrl, BlockPost>>,
   <<Lengthen, Chunk>>}

Headers == {[NoHeaders EXCEPT ![x] = v1, ![up] = v2]}

MCRequests ==
  [method : {<<"GET", "upper">>, <<"POST", "lower">>},
   url : SUBSET {post}, headers : Headers]

MCOriginHeaders == {[NoHeaders EXCEPT ![x] = v2, ![ContentType] = v1]}
=============================================================================
