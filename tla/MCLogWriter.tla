----------------------------- MODULE MCLogWriter -----------------------------
EXTENDS LogWriter
CONSTANTS ann, bea, file, mirror, terminal

MCActors == {ann, bea}
MCSinks == {file, mirror, terminal}
MCRequired == {file, mirror}
=============================================================================
