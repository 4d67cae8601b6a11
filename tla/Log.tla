-------------------------------- MODULE Log --------------------------------
(***************************************************************************)
(* Log::Logger of src/Log.cpp: an output file and the buffer of the stream *)
(* in front of it.  What is in the buffer when the process dies is lost.   *)
(* A piece of output is any value; its wording does not matter here.       *)
(***************************************************************************)
EXTENDS Sequences

\* A Logger is [is_open, buffer, file], the last as it is on disk.
\* open(): the file is emptied by std::ofstream::open.
Opened == [is_open |-> TRUE, buffer |-> <<>>, file |-> <<>>]

\* operator<< of a string.  A stream that is not open swallows it.
print(logger, piece) ==
  IF logger.is_open THEN [logger EXCEPT !.buffer = Append(@, piece)] ELSE logger

\* A mutant of endl: the line ends, but the stream is not flushed.
endlUnflushed(logger) == logger

\* operator<< of Log::endl, and std::endl: the line ends and the buffer is
\* written to the file.
endl(logger) == [logger EXCEPT !.file = @ \o logger.buffer, !.buffer = <<>>]

\* close(), also called by the destructor.
close(logger) == [endl(logger) EXCEPT !.is_open = FALSE]
=============================================================================
