---------------------------- MODULE MCHttpDownload ----------------------------
(* A finite instance of HttpDownload.                                         *)
EXTENDS HttpDownload

\* The whole file, and a range that begins and ends inside it.
FileAndRange == {<<0, -1>>, <<1, 3>>}
=============================================================================
