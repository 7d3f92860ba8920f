---------------------------- MODULE MCHttpConnection ----------------------------
\* Requests for HttpConnection: a plain one of each method, and one of each way in
\* which a request differs from it.
EXTENDS HttpConnection

Get1 == [NoRequest EXCEPT !.method = "GET"]
Post(how, n) == [NoRequest EXCEPT !.method = "POST", !.delimited = how, !.size = n]

MCRequests ==
  {Get1,
   [Get1 EXCEPT !.connection = "close", !.method = "HEAD"],
   [Get1 EXCEPT !.defect = "line"],
   [Get1 EXCEPT !.defect = "long"],
   [Get1 EXCEPT !.defect = "headers", !.connection = "close"],
   [Get1 EXCEPT !.range = "bad"],
   [Get1 EXCEPT !.range = "open"],
   [Get1 EXCEPT !.range = "beyond"],
   [Get1 EXCEPT !.delimited = "length", !.size = 1],
   Post("none", 1), Post("length", 2), Post("length", 3),
   Post("chunked", 1), Post("bad_chunks", 1),
   [Post("chunked", 0) EXCEPT !.trailer = "close"],
   [Post("length", 1) EXCEPT !.expect = TRUE],
   [Post("length", 1) EXCEPT !.gzip = TRUE],
   [Post("length", 1) EXCEPT !.form = "no_boundary"],
   [Post("length", 2) EXCEPT !.form = "broken"],
   [Post("length", 1) EXCEPT !.form = "multipart"],
   [Post("length", 1) EXCEPT !.form = "too_long"],
   [Post("chunked", 1) EXCEPT !.method = "DELETE"],
   [Post("length", 1) EXCEPT !.method = "DELETE", !.old = TRUE, !.connection = "Keep-Alive"],
   [Post("length", 0) EXCEPT !.method = "PRI", !.old = TRUE]}

=============================================================================
