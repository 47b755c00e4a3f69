----------------------------- MODULE MCCollector -----------------------------
(* Collector with small constants for TLC: what a link may serve is a      *)
(* resume, a scan only OCR can read, a resume with little text, one whose  *)
(* text no extractor finds, a web page, and Google's sign-in page.         *)
EXTENDS Collector

CONSTANTS n1, n2, e1, u1, u2

File(raw, pymupdf, pdfplumber, ocr) ==
  [html |-> FALSE, signin |-> FALSE, raw |-> raw, pymupdf |-> pymupdf,
   pdfplumber |-> pdfplumber, ocr |-> ocr]

Contents == {File(9000, 5000, 5000, 5000), File(9000, 0, 90, 2000),
             File(9000, 60, 60, 60),
             [File(9000, 3000, 0, 0) EXCEPT !.html = TRUE],
             [File(9000, 300, 0, 0) EXCEPT !.html = TRUE, !.signin = TRUE]}

Options == {[github |-> TRUE, google |-> TRUE, enrich |-> TRUE, verify |-> TRUE,
             openpyxl |-> TRUE]}
           \cup [github : {FALSE}, google : {TRUE}, enrich : {FALSE}, verify : {FALSE},
                 openpyxl : BOOLEAN]

\* One person, with and without the e-mail, found by both sources, and
\* another who may turn out to have the same e-mail.
Found(name, email, url, source) ==
  [name |-> name, email |-> email, url |-> url, source |-> source]

Findables ==
  {Found(n1, e1, u1, "github"), Found(n1, None, u1, "github"),
   Found(n1, e1, u1, "serper"), Found(n2, None, u2, "serper")}
=============================================================================
