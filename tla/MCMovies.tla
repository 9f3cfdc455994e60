------------------------------ MODULE MCMovies ------------------------------
EXTENDS Movies
=============================================================================
