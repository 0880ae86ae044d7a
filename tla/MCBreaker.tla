------------------------------ MODULE MCBreaker ------------------------------
EXTENDS RedisCircuitBreaker
=============================================================================
