--------------------------- MODULE MCMultiplexIo ----------------------------
\* The epoll thread on a small instance; see the configuration.
EXTENDS MultiplexIo
=============================================================================
