---------------------------- MODULE MCLineReader ----------------------------
\* Every input of up to MaxText bytes, read in every division into chunks.
EXTENDS LineReader

MCByte == {"a", "\n"}
MCNewline == "\n"
MCCarriage == "\r"
MCWhitespace == {"\r", "\n"}
=============================================================================
